---- MODULE Spec2Model ----
(***************************************************************************)
(* A model of the polling coordinator of backend/meshmapPoller.py:         *)
(* MeshPollingDaemon.start, _daemon_loop, _poll_cycle, _poll_all_nodes     *)
(* with its rate_limited_poll tasks, and cleanup.                          *)
(*                                                                         *)
(* Execution model: one asyncio event loop.  A step of the model is what   *)
(* one coroutine does between two suspension points (an await that really  *)
(* suspends), so every action is atomic exactly where the code is.  The    *)
(* signal handlers are installed with loop.add_signal_handler, so a signal *)
(* is one more callback of the loop and runs between two such steps.       *)
(* Start delays are kept as exact fractions <<numerator, denominator>>.    *)
(***************************************************************************)
EXTENDS Integers, Sequences, FiniteSets, TLC

\* ------------------------------------------------------------------ bounds
\* At most MaxNodes candidates per discovery and MaxCycles poll cycles.
MaxNodes == 3
MaxCycles == 2

\* The configurations the model ranges over:
\* <<numParallelThreads, pollerCycleTime>>.
ConfigChoices == {<<1, 0>>, <<2, 1>>}

\* ------------------------------------------------------- program constants
FirstCycleThreads == 600

None == "None"
\* hopsAway is None (a candidate known only from a link report)
HopsUnknown == -1
\* the process has not exited
NotExited == -1

VARIABLES
    once_mode,              \* --once
    base_parallel_threads,  \* numParallelThreads as configured
    poller_cycle_minutes,   \* pollerCycleTime as configured
    connector,              \* the TCPConnector of self.session: its limits
    running,                \* self.running
    shutdown_event,         \* self.shutdown_event.is_set()
    cycle_count,            \* self.cycle_count
    parallel_threads,       \* self.parallel_threads
    pc,                     \* where the coordinator coroutine is suspended
    outcome,                \* how the current (or last) cycle ended
    node_devices,           \* the candidates of the cycle, in dict order
    tasks,                  \* the poll tasks of the cycle, in creation order
    permits,                \* the semaphore's value
    pending,                \* _poll_all_nodes: pending
    done,                   \* _poll_all_nodes: the done set being walked
    cur,                    \* the task whose result is being upserted
    results,                \* _poll_all_nodes: results (tasks, by index)
    completed,              \* _poll_all_nodes: completed
    upserted,               \* tasks whose result upsert was issued
    stats,                  \* self.stats
    db,                     \* node table: the wlan_ip keys that have a row
    statsRow,               \* stats table: its rows (the POLLINFO row)
    phases,                 \* the phases the cycle has entered, in order
    emitted,                \* how artifact emission of this cycle ended
    session_closed,         \* the HTTP session was closed
    db_closed,              \* the DB pool was closed
    exit_code               \* the process's exit code

\* NodePoller, taken on its own: one call of fetch_json or of poll_node.
VARIABLES
    call,                   \* the call under way: its kind and retry budget
    fetch,                  \* fetch_json: the call in progress
    poll,                   \* poll_node: its locals
    requested               \* the URLs poll_node passed to fetch_json, in order

\* MySQLAdapter's node table, taken on its own: a sequence of upsert_node calls.
VARIABLES
    node_table,             \* the rows of node_info
    last_upsert,            \* the latest upsert_node call: its record, whether
                            \* execute raised, how many times in a row the
                            \* same record has now been applied, and for a poll
                            \* result the address polled and the address found
    now                     \* the database clock, NOW()

\* Discovery, taken on its own: _fetch_topology and _build_node_list per cycle.
VARIABLES
    localnode_ip,           \* self.localnode_ip
    nodelistNode_ip,        \* self.nodelistNode_ip
    discovery               \* the discovery under way: its answers, the topology
                            \* bundle and the candidate set built from it

\* The enrichment pass, taken on its own: _build_link_topology over the node
\* table, cycle after cycle.
VARIABLES
    enrich                  \* the pass under way: its snapshot, its position, its
                            \* link count, and stats['mappableLinks']

\* A function without state of its own, taken on its own: one call of it.
VARIABLES
    frame                   \* the call: the function, its arguments, its result

poller == <<call, fetch, poll, requested>>
adapter == <<node_table, last_upsert, now>>
topology == <<localnode_ip, nodelistNode_ip, discovery>>
enricher == <<enrich>>
functions == <<frame>>
units == <<poller, adapter, topology, enricher, functions>>

config == <<once_mode, base_parallel_threads, poller_cycle_minutes>>
flags == <<running, shutdown_event>>
fanout == <<tasks, permits, pending, done, cur, results, completed, upserted>>
store == <<db, statsRow>>
closing == <<session_closed, db_closed, exit_code>>
daemon == <<once_mode, base_parallel_threads, poller_cycle_minutes, connector, running,
            shutdown_event, cycle_count, parallel_threads, pc, outcome,
            node_devices, tasks, permits, pending, done, cur, results,
            completed, upserted, stats, db, statsRow, phases, emitted,
            session_closed, db_closed, exit_code>>
vars == <<daemon, units>>

\* ----------------------------------------------------------------- helpers
Max(a, b) == IF a >= b THEN a ELSE b

\* poller_cycle_seconds = max(poller_cycle_minutes * 60, 1)
poller_cycle_seconds == Max(poller_cycle_minutes * 60, 1)

\* Fractions <<n, d>> with d > 0.
FracLess(x, y) == x[1] * y[2] < y[1] * x[2]
FracEq(x, y) == x[1] * y[2] = y[1] * x[2]
FracZero == <<0, 1>>

TaskIds == DOMAIN tasks
Settled(t) == tasks[t].pc \in {"done", "cancelled"}
InFlight == {t \in TaskIds : tasks[t].pc = "polling"}

SeedHopsUnknown(n) ==
    [k \in 1..n |-> [ip |-> k, hopsAway |-> IF k = 1 THEN HopsUnknown ELSE 1]]

\* _build_node_list: every entry of the node list becomes a candidate with
\* hopsAway 1 (hops = 1 is assigned unconditionally).
BuildNodeList(n) == [k \in 1..n |-> [ip |-> k, hopsAway |-> 1]]

\* -------------------------------------------------------- the cycle budget
FirstCycleBudgetOnly(c) == FirstCycleThreads

\* _poll_cycle: 600 in the cycle whose counter is 1, the configured value after
CycleBudget(c) == IF c = 1 THEN FirstCycleThreads ELSE base_parallel_threads

\* ------------------------------------------------------------- start delay
InterPollDelayShort(total) == IF cycle_count > 1 /\ total > 1
                                 THEN <<poller_cycle_seconds, total - 1>>
                                 ELSE FracZero

\* inter_poll_delay = poller_cycle_seconds / total_nodes after the first
\* cycle (and when there are candidates), else 0.0
InterPollDelay(total) == IF cycle_count > 1 /\ total > 0
                            THEN <<poller_cycle_seconds, total>>
                            ELSE FracZero

TaskDelayAlways(idx, total) == <<poller_cycle_seconds * idx, Max(total, 1)>>

\* delay = inter_poll_delay * idx if self.cycle_count > 1 else 0.0
TaskDelay(idx, total) == IF cycle_count > 1
                            THEN <<InterPollDelay(total)[1] * idx, InterPollDelay(total)[2]>>
                            ELSE FracZero

\* The task list: one task per candidate with known hops, carrying the
\* candidate's position idx (from 0) in node_devices.
RECURSIVE CreateTasks(_, _)
CreateTasks(devs, k) ==
    IF k > Len(devs) THEN <<>>
    ELSE IF devs[k].hopsAway = HopsUnknown THEN CreateTasks(devs, k + 1)
    ELSE <<[ip |-> devs[k].ip, hops |-> devs[k].hopsAway,
            delay |-> TaskDelay(k - 1, Len(devs)),
            pc |-> "created", exit |-> "-", result |-> "-",
            flagAtSem |-> "-", cancel |-> FALSE]>>
         \o CreateTasks(devs, k + 1)

\* --------------------------------------------------------------- semaphore
\* asyncio.Semaphore: acquire suspends while the value is not positive
SemaphoreLocked(p) == p <= 0

KeepPermit(p) == p

\* leaving "async with semaphore" gives the permit back
ReleasePermit(p) == p + 1

NoShutdownCheck == FALSE

\* the check of the shutdown flag inside "async with semaphore"
ShutdownSeenInSemaphore == shutdown_event

\* The task holds a permit: the check inside the semaphore, then poll_node.
InsideSemaphore(tsk, t, p) ==
    IF ShutdownSeenInSemaphore
       THEN [tasks |-> [tsk EXCEPT ![t].pc = "done", ![t].exit = "post",
                                   ![t].result = None],
             permits |-> ReleasePermit(p - 1)]
       ELSE [tasks |-> [tsk EXCEPT ![t].pc = "polling"], permits |-> p - 1]

\* The task reaches "async with semaphore": it takes a permit or waits.
EnterSemaphore(t) ==
    LET tsk == [tasks EXCEPT ![t].flagAtSem =
                    IF shutdown_event THEN "set" ELSE "clear"]
    IN  IF SemaphoreLocked(permits)
           THEN [tasks |-> [tsk EXCEPT ![t].pc = "waiting"], permits |-> permits]
           ELSE InsideSemaphore(tsk, t, permits)

\* ------------------------------------------------------------------- tasks
\* Program points where the coordinator is running, not suspended: no other
\* callback of the loop (a task step, a signal handler) runs there.
Transient == {"process", "loop", "once"}

\* rate_limited_poll up to its first suspension: the first check of the
\* shutdown flag, the skip of a candidate with unknown hops, the start delay.
\* Tasks take their first step in creation order (the loop's ready queue).
Start(t) ==
    /\ pc \notin Transient
    /\ tasks[t].pc = "created"
    /\ ~tasks[t].cancel
    /\ \A u \in TaskIds : u < t => tasks[u].pc # "created"
    /\ LET r == IF shutdown_event
                   THEN [tasks |-> [tasks EXCEPT ![t].pc = "done", ![t].exit = "pre",
                                                 ![t].result = None],
                         permits |-> permits]
                ELSE IF tasks[t].hops = HopsUnknown
                   THEN [tasks |-> [tasks EXCEPT ![t].pc = "done", ![t].exit = "skip",
                                                 ![t].result = None],
                         permits |-> permits]
                ELSE IF FracLess(FracZero, tasks[t].delay)
                   THEN [tasks |-> [tasks EXCEPT ![t].pc = "sleeping"],
                         permits |-> permits]
                ELSE EnterSemaphore(t)
       IN  tasks' = r.tasks /\ permits' = r.permits
    /\ UNCHANGED <<units, config, connector, flags, cycle_count, parallel_threads, pc, outcome,
                   node_devices, pending, done, cur, results, completed,
                   upserted, stats, store, phases, emitted, closing>>

\* asyncio.sleep(delay) returns; the delays of a cycle increase with the
\* index, so the timers fire in index order.
Wake(t) ==
    /\ pc \notin Transient
    /\ tasks[t].pc = "sleeping"
    /\ ~tasks[t].cancel
    /\ \A u \in TaskIds : u < t => tasks[u].pc \notin {"created", "sleeping"}
    /\ LET r == EnterSemaphore(t)
       IN  tasks' = r.tasks /\ permits' = r.permits
    /\ UNCHANGED <<units, config, connector, flags, cycle_count, parallel_threads, pc, outcome,
                   node_devices, pending, done, cur, results, completed,
                   upserted, stats, store, phases, emitted, closing>>

\* A task waiting for the semaphore is given a permit.
Acquire(t) ==
    /\ pc \notin Transient
    /\ tasks[t].pc = "waiting"
    /\ ~tasks[t].cancel
    /\ ~SemaphoreLocked(permits)
    /\ LET r == InsideSemaphore(tasks, t, permits)
       IN  tasks' = r.tasks /\ permits' = r.permits
    /\ UNCHANGED <<units, config, connector, flags, cycle_count, parallel_threads, pc, outcome,
                   node_devices, pending, done, cur, results, completed,
                   upserted, stats, store, phases, emitted, closing>>

\* poll_node returns a record ("ok") or None (every sysinfo candidate
\* failed, or parsing raised and was caught); the permit is given back.
PollReturn(t) ==
    /\ pc \notin Transient
    /\ tasks[t].pc = "polling"
    /\ ~tasks[t].cancel
    /\ \E res \in {"ok", None} :
          tasks' = [tasks EXCEPT ![t].pc = "done", ![t].exit = "polled",
                                 ![t].result = res]
    /\ permits' = ReleasePermit(permits)
    /\ UNCHANGED <<units, config, connector, flags, cycle_count, parallel_threads, pc, outcome,
                   node_devices, pending, done, cur, results, completed,
                   upserted, stats, store, phases, emitted, closing>>

\* A task that was cancelled gets CancelledError at the point where it is
\* suspended (or before its first step) and ends cancelled; a permit it
\* holds is given back on the way out of "async with semaphore".
TaskCancelled(t) ==
    /\ pc \notin Transient
    /\ tasks[t].cancel
    /\ ~Settled(t)
    /\ tasks' = [tasks EXCEPT ![t].pc = "cancelled"]
    /\ permits' = IF tasks[t].pc = "polling" THEN ReleasePermit(permits) ELSE permits
    /\ UNCHANGED <<units, config, connector, flags, cycle_count, parallel_threads, pc, outcome,
                   node_devices, pending, done, cur, results, completed,
                   upserted, stats, store, phases, emitted, closing>>

\* ------------------------------------------------------------------ signal
\* _signal_handler, for SIGINT and SIGTERM
Signal ==
    /\ pc \notin Transient \cup {"exited"}
    /\ running' = FALSE
    /\ shutdown_event' = TRUE
    /\ UNCHANGED <<units, config, connector, cycle_count, parallel_threads, pc, outcome,
                   node_devices, fanout, stats, store, phases, emitted, closing>>

\* ------------------------------------------------------------- coordinator
RunningOnly(r) == r

\* _daemon_loop: while self.running and not self.shutdown_event.is_set()
DaemonLoopContinues(r) == r /\ ~shutdown_event

\* _poll_cycle begins: the counter advances, then discovery is awaited.
StartCycle ==
    /\ cycle_count < MaxCycles
    /\ cycle_count' = cycle_count + 1
    /\ pc' = "discover"
    /\ outcome' = "running"
    /\ phases' = <<"discover">>
    /\ emitted' = "-"

AlwaysLoop == "loop"

\* Where start() goes when a cycle returns: --once leaves, the daemon loops.
AfterCycle == IF once_mode THEN "cleanup" ELSE "loop"

AlwaysLeave == "cleanup"

\* Where a cycle's exception goes: _daemon_loop catches it and sleeps 60 s;
\* in --once mode it reaches start()'s handler, which re-raises after cleanup.
AfterRaise == IF once_mode THEN "cleanup" ELSE "backoff"

SavedBeforeEmit(p) ==
    CASE p = "enrich" -> "save"
      [] p = "save" -> "emit"
      [] OTHER -> "end"

\* The later phases dropped once shutdown is set
LeaveOnShutdown(p) ==
    IF shutdown_event THEN "end"
    ELSE CASE p = "enrich" -> "emit"
           [] p = "emit" -> "save"
           [] OTHER -> "end"

\* _poll_cycle after the fan-out: _build_link_topology, _generate_data_files,
\* save_polling_stats, each awaited in turn.
PhaseAfter(p) ==
    CASE p = "enrich" -> "emit"
      [] p = "emit" -> "save"
      [] OTHER -> "end"

\* aiohttp.TCPConnector(limit=..., limit_per_host=10)
TCPConnector(limit) == [limit |-> limit, limit_per_host |-> 10]

\* start(): db.connect() returned; the session is created on a connector
\* whose limit is parallel_threads as it is then, running is set.
ConnectReturn ==
    /\ pc = "connect"
    /\ connector' = TCPConnector(parallel_threads)
    /\ running' = TRUE
    /\ pc' = IF once_mode THEN "once" ELSE "loop"
    /\ UNCHANGED <<units, config, shutdown_event, cycle_count, parallel_threads, outcome,
                   node_devices, fanout, stats, store, phases, emitted, closing>>

\* start(): db.connect() raised; the handler logs, cleanup runs, start raises.
ConnectFails ==
    /\ pc = "connect"
    /\ outcome' = "fatal"
    /\ pc' = "cleanup"
    /\ UNCHANGED <<units, config, connector, flags, cycle_count, parallel_threads,
                   node_devices, fanout, stats, store, phases, emitted, closing>>

\* start() in --once mode: await self._poll_cycle(), whatever the flag says.
OnceCycle ==
    /\ pc = "once"
    /\ StartCycle
    /\ UNCHANGED <<units, config, connector, flags, parallel_threads, node_devices, fanout,
                   stats, store, closing>>

\* _daemon_loop's loop test, followed by the next cycle or by the way out.
LoopCheck ==
    /\ pc = "loop"
    /\ IF DaemonLoopContinues(running)
          THEN StartCycle
          ELSE pc' = "cleanup" /\ UNCHANGED <<cycle_count, outcome, phases, emitted>>
    /\ UNCHANGED <<units, config, connector, flags, parallel_threads, node_devices, fanout,
                   stats, store, closing>>

\* asyncio.sleep(60) after a cycle that raised
BackoffReturn ==
    /\ pc = "backoff"
    /\ pc' = "loop"
    /\ UNCHANGED <<units, config, connector, flags, cycle_count, parallel_threads, outcome,
                   node_devices, fanout, stats, store, phases, emitted, closing>>

\* A failed discovery that zeroes nodeTotal
DiscoverNothingCounted ==
    /\ pc = "discover"
    /\ outcome' = "notopo"
    /\ pc' = AfterCycle
    /\ stats' = [stats EXCEPT !.nodeTotal = 0]
    /\ UNCHANGED <<units, config, connector, flags, cycle_count, parallel_threads,
                   node_devices, fanout, store, phases, emitted, closing>>

\* _fetch_topology returned None: the cycle logs and returns.
DiscoverNothing ==
    /\ pc = "discover"
    /\ outcome' = "notopo"
    /\ pc' = AfterCycle
    /\ UNCHANGED <<units, config, connector, flags, cycle_count, parallel_threads,
                   node_devices, fanout, stats, store, phases, emitted, closing>>

\* _fetch_topology raised (a payload of an unexpected shape).
DiscoverRaises ==
    /\ pc = "discover"
    /\ outcome' = "raised"
    /\ pc' = AfterRaise
    /\ UNCHANGED <<units, config, connector, flags, cycle_count, parallel_threads,
                   node_devices, fanout, stats, store, phases, emitted, closing>>

\* t.cancel() for every task of pend that is not done
CancelPending(tsk, pend) ==
    [t \in DOMAIN tsk |->
        IF t \in pend /\ tsk[t].pc \notin {"done", "cancelled"}
           THEN [tsk[t] EXCEPT !.cancel = TRUE]
           ELSE tsk[t]]

LoopEndsAfterBatch(d, pend) == IF d # {} THEN "process" ELSE "gather"

\* _poll_all_nodes: the next done task, else the loop test
\* "while pending and not shutdown", else the finally block.
NextInFanOut(d, pend) ==
    IF d # {} THEN "process"
    ELSE IF pend # {} /\ ~shutdown_event THEN "wait"
    ELSE "gather"

\* save_polling_stats: the columns of the POLLINFO row that the model keeps
\* (the row has no column for nodesWithErrors or for the protocol counts)
StatsRow(st) == [id |-> "POLLINFO",
                 nodeTotal |-> st.nodeTotal, garbageReturned |-> st.garbageReturned,
                 highestHops |-> st.highestHops, totalPolled |-> st.totalPolled]

InsertRow(T, row) == T \cup {row}

\* INSERT INTO map_info ... ON DUPLICATE KEY UPDATE ..., on the table whose
\* primary key is id: the row with the same id is replaced
SavePollingStats(T, row) == {r \in T : r.id # row.id} \cup {row}

\* The records of a cycle that have no location
MaxNoLocation == 1

\* garbageReturned as the count of the polls that returned nothing
GarbageFromErrors(st, res, devs) == st.nodesWithErrors

\* _calculate_stats: garbageReturned, from the pollable candidates when
\* there are candidates
GarbageReturned(st, res, devs) ==
    LET pollable == Cardinality({k \in DOMAIN devs : devs[k].hopsAway # HopsUnknown})
    IN  IF Len(devs) > 0 THEN pollable - Cardinality(res)
        ELSE st.nodeTotal - Cardinality(res)

\* _calculate_stats(polled_nodes, node_devices); noloc holds the records
\* with "lat == 0.0 or lon == 0.0"
CalculateStats(st, res, devs, noloc) ==
    [st EXCEPT !.totalPolled = Cardinality(res),
               !.garbageReturned = GarbageReturned(st, res, devs),
               !.noLocation = Cardinality(noloc),
               !.mappableNodes = Cardinality(res) - Cardinality(noloc)]

\* _fetch_topology returned a bundle with n candidates with an IP:
\* _build_node_list, nodeTotal, then _update_topology_info is awaited.  With
\* no candidate nothing suspends before _build_link_topology.
DiscoverNodes(n) ==
    /\ pc = "discover"
    /\ node_devices' = BuildNodeList(n)
    /\ IF n > 0
          THEN /\ pc' = "topology"
               /\ stats' = [stats EXCEPT !.nodeTotal = n, !.highestHops = 1]
               /\ UNCHANGED <<parallel_threads, fanout, phases>>
          ELSE /\ pc' = "enrich"
               /\ parallel_threads' = CycleBudget(cycle_count)
               /\ permits' = CycleBudget(cycle_count)
               /\ tasks' = <<>>
               /\ pending' = {} /\ done' = {} /\ cur' = 0
               /\ results' = {} /\ completed' = 0 /\ upserted' = {}
               /\ stats' = CalculateStats(
                              [stats EXCEPT !.nodeTotal = 0, !.highestHops = 0],
                              {}, <<>>, {})
               /\ phases' = phases \o <<"fanout", "enrich">>
    /\ UNCHANGED <<units, config, connector, flags, cycle_count, outcome, store, emitted, closing>>

ReplaceKeys(d, ks) == ks

\* The keys of node_info after upsert_node went through for the keys in ks:
\* INSERT ... ON DUPLICATE KEY UPDATE adds or updates, it removes no row
UpsertKeys(d, ks) == d \cup ks

\* _update_topology_info returned (the upserts of the ips in ok went
\* through, the errors of the others were logged: the model takes all or
\* none to have failed); then the budget is set
\* and _poll_all_nodes runs to its first suspension: semaphore, delays,
\* tasks, and asyncio.wait unless shutdown is already set.
TopologyUpserted(ok) ==
    /\ pc = "topology"
    /\ db' = UpsertKeys(db, ok)
    /\ parallel_threads' = CycleBudget(cycle_count)
    /\ permits' = CycleBudget(cycle_count)
    /\ LET created == CreateTasks(node_devices, 1)
           next == NextInFanOut({}, DOMAIN created)
       IN  /\ pending' = DOMAIN created
           /\ pc' = next
           /\ tasks' = IF next = "gather"
                          THEN CancelPending(created, DOMAIN created)
                          ELSE created
    /\ done' = {} /\ cur' = 0
    /\ results' = {} /\ completed' = 0 /\ upserted' = {}
    /\ phases' = phases \o <<"fanout">>
    /\ UNCHANGED <<units, config, connector, flags, cycle_count, outcome, node_devices, stats,
                   statsRow, emitted, closing>>

\* asyncio.wait(pending, FIRST_COMPLETED) returns the tasks that are done
WaitReturn ==
    /\ pc = "wait"
    /\ \E t \in pending : Settled(t)
    /\ done' = {t \in pending : Settled(t)}
    /\ pending' = pending \ done'
    /\ pc' = "process"
    /\ UNCHANGED <<units, config, connector, flags, cycle_count, parallel_threads, outcome,
                   node_devices, tasks, permits, cur, results, completed,
                   upserted, stats, store, phases, emitted, closing>>

\* The body of "for t in done" for one task: a cancelled task is passed
\* over, a result is appended and its upsert awaited, None counts an error.
ProcessDone(t) ==
    /\ pc = "process"
    /\ t \in done
    /\ done' = done \ {t}
    /\ IF tasks[t].pc = "cancelled"
          THEN /\ pc' = NextInFanOut(done', pending)
               /\ tasks' = IF pc' = "gather" THEN CancelPending(tasks, pending) ELSE tasks
               /\ UNCHANGED <<cur, results, completed, stats>>
       ELSE IF tasks[t].result = "ok"
          THEN /\ completed' = completed + 1
               /\ results' = results \cup {t}
               /\ cur' = t
               /\ pc' = "upsert"
               /\ UNCHANGED <<tasks, stats>>
          ELSE /\ completed' = completed + 1
               /\ stats' = [stats EXCEPT !.nodesWithErrors = @ + 1]
               /\ pc' = NextInFanOut(done', pending)
               /\ tasks' = IF pc' = "gather" THEN CancelPending(tasks, pending) ELSE tasks
               /\ UNCHANGED <<cur, results>>
    /\ UNCHANGED <<units, config, connector, flags, cycle_count, parallel_threads, outcome,
                   node_devices, permits, pending, upserted, store, phases,
                   emitted, closing>>

\* db.upsert_node(result) returned, or raised and the error was logged
UpsertReturn(ok) ==
    /\ pc = "upsert"
    /\ upserted' = upserted \cup {cur}
    /\ db' = IF ok THEN UpsertKeys(db, {tasks[cur].ip}) ELSE db
    /\ cur' = 0
    /\ pc' = NextInFanOut(done, pending)
    /\ tasks' = IF pc' = "gather" THEN CancelPending(tasks, pending) ELSE tasks
    /\ UNCHANGED <<units, config, connector, flags, cycle_count, parallel_threads, outcome,
                   node_devices, permits, pending, done, results, completed,
                   stats, statsRow, phases, emitted, closing>>

GatherSkipped == TRUE

\* await asyncio.gather(*tasks, return_exceptions=True): every task settled
GatherSettled == \A t \in TaskIds : Settled(t)

\* The finally block's gather returns, _poll_all_nodes returns its results,
\* _calculate_stats runs and _build_link_topology is awaited.
GatherReturn ==
    /\ pc = "gather"
    /\ GatherSettled
    /\ \E noloc \in {r \in SUBSET results : Cardinality(r) <= MaxNoLocation} :
          stats' = CalculateStats(stats, results, node_devices, noloc)
    /\ pc' = "enrich"
    /\ phases' = phases \o <<"enrich">>
    /\ UNCHANGED <<units, config, connector, flags, cycle_count, parallel_threads, outcome,
                   node_devices, fanout, store, emitted, closing>>

\* The last awaited phase returned: _poll_cycle returns (or raises), and
\* with it the cycle's locals go: the candidates, the settled tasks, the
\* results.
CycleEnds(ok) ==
    /\ IF ok THEN outcome' = "ok" /\ pc' = AfterCycle
             ELSE outcome' = "raised" /\ pc' = AfterRaise
    /\ node_devices' = <<>>
    /\ tasks' = IF \A t \in TaskIds : Settled(t) THEN <<>> ELSE tasks
    /\ pending' = {} /\ done' = {} /\ cur' = 0
    /\ results' = {} /\ completed' = 0 /\ upserted' = {}
    /\ permits' = permits

\* One of the awaited phases after the fan-out returns.  _build_link_topology
\* and _generate_data_files catch and log their own errors (ok = FALSE);
\* save_polling_stats lets a database error out of the cycle.
PhaseReturn(ok) ==
    /\ pc \in {"enrich", "emit", "save"}
    /\ emitted' = IF pc = "emit" THEN (IF ok THEN "ok" ELSE "failed") ELSE emitted
    /\ stats' = IF pc = "emit" /\ ok
                   THEN [stats EXCEPT !.protocolCycle = cycle_count]
                   ELSE stats
    /\ statsRow' = IF pc = "save" /\ ok
                      THEN SavePollingStats(statsRow, StatsRow(stats))
                      ELSE statsRow
    /\ IF PhaseAfter(pc) = "end"
          THEN /\ CycleEnds(pc # "save" \/ ok)
               /\ phases' = phases
          ELSE /\ pc' = PhaseAfter(pc)
               /\ phases' = phases \o <<PhaseAfter(pc)>>
               /\ UNCHANGED <<outcome, node_devices, fanout>>
    /\ UNCHANGED <<units, config, connector, flags, cycle_count, parallel_threads, db, closing>>

\* cleanup(): await self.session.close(), when a session was created
CloseSession ==
    /\ pc = "cleanup"
    /\ session_closed' = (outcome # "fatal")
    /\ pc' = "close_db"
    /\ UNCHANGED <<units, config, connector, flags, cycle_count, parallel_threads, outcome,
                   node_devices, fanout, stats, store, phases, emitted,
                   db_closed, exit_code>>

\* cleanup(): await self.db.close(); then start() returns or re-raises and
\* main() exits with 0 or 1.
CloseDb ==
    /\ pc = "close_db"
    /\ db_closed' = TRUE
    /\ exit_code' = IF outcome = "fatal" \/ (once_mode /\ outcome = "raised")
                       THEN 1 ELSE 0
    /\ pc' = "exited"
    /\ UNCHANGED <<units, config, connector, flags, cycle_count, parallel_threads, outcome,
                   node_devices, fanout, stats, store, phases, emitted,
                   session_closed>>

\* ------------------------------------------------------------ specification
\* self.stats as constructed.  protocolCycle stands for babelNodes, olsrNodes
\* and comboNodes: the cycle whose emission last set them (0: never set).
InitStats == [nodeTotal |-> 0, highestHops |-> 0, totalPolled |-> 0,
              garbageReturned |-> 0, nodesWithErrors |-> 0, protocolCycle |-> 0,
              noLocation |-> 0, mappableNodes |-> 0]

\* NodeInfo(): the defaults of the two fields the chains fill
NodeInfo == [link_info |-> "", services |-> "Not Available"]

\* poll_node's locals at position pc with candidate idx under request: data
\* holds every value the sysinfo loop assigned to it, the last being current;
\* source is the candidate whose answer ended the sysinfo loop.
PollCall(at, i) ==
    [pc |-> at, idx |-> i, data |-> <<>>, source |-> 0,
     link_info_data |-> None, services_data |-> None,
     node_info |-> NodeInfo, result |-> "-"]

\* No NodePoller call is under way.
PollerIdle ==
    /\ call = [kind |-> "-", retries |-> 0]
    /\ fetch = [pc |-> "idle", url |-> <<"-", "-">>, attempt |-> 0,
                attempts |-> <<>>, result |-> "-"]
    /\ poll = PollCall("idle", 0)
    /\ requested = <<>>

\* The node table as _ensure_tables creates it, before any upsert_node call.
AdapterIdle ==
    /\ node_table = {}
    /\ last_upsert = [rec |-> [wlan_ip |-> "-", node |-> "-", lat |-> 0,
                               link_info |-> "-"],
                      raised |-> FALSE, applied |-> 0,
                      polled |-> "-", found |-> "-"]
    /\ now = 0

\* The daemon's discovery attributes as __init__ sets them.
TopologyIdle ==
    /\ localnode_ip = None
    /\ nodelistNode_ip = None
    /\ discovery = [pc |-> "idle", cycle |-> 0, listed |-> {}, link_map |-> "{}",
                    nodes |-> {}, links |-> {}, candidates |-> {}]

\* No enrichment pass has run: stats['mappableLinks'] as __init__ sets it.
EnricherIdle ==
    enrich = [pc |-> "idle", pass |-> 0, all_nodes |-> {}, todo |-> {},
              link_count |-> 0, given |-> {}, mappableLinks |-> 0]

\* No function call is under examination.
FunctionsIdle == frame = [fn |-> "-"]

UnitsIdle ==
    PollerIdle /\ AdapterIdle /\ TopologyIdle /\ EnricherIdle /\ FunctionsIdle

DaemonInit ==
    /\ once_mode \in BOOLEAN
    /\ \E c \in ConfigChoices :
          base_parallel_threads = c[1] /\ poller_cycle_minutes = c[2]
    /\ connector = [limit |-> 0, limit_per_host |-> 0]
    /\ running = FALSE
    /\ shutdown_event = FALSE
    /\ cycle_count = 0
    /\ parallel_threads = base_parallel_threads
    /\ pc = "connect"
    /\ outcome = "-"
    /\ node_devices = <<>>
    /\ tasks = <<>>
    /\ permits = 0
    /\ pending = {} /\ done = {} /\ cur = 0
    /\ results = {} /\ completed = 0 /\ upserted = {}
    /\ stats = InitStats
    /\ db = {}
    /\ statsRow = {}
    /\ phases = <<>>
    /\ emitted = "-"
    /\ session_closed = FALSE
    /\ db_closed = FALSE
    /\ exit_code = NotExited

Init == DaemonInit /\ UnitsIdle

\* The daemon as constructed, for the specifications of a single component.
DaemonIdle == DaemonInit /\ ~once_mode /\ base_parallel_threads = 1

TaskStep ==
    \E t \in TaskIds :
        \/ Start(t)
        \/ Wake(t)
        \/ Acquire(t)
        \/ PollReturn(t)
        \/ TaskCancelled(t)

CoordinatorStep ==
    \/ ConnectReturn
    \/ ConnectFails
    \/ OnceCycle
    \/ LoopCheck
    \/ BackoffReturn
    \/ DiscoverNothing
    \/ DiscoverRaises
    \/ \E n \in 0..MaxNodes : DiscoverNodes(n)
    \/ \E ok \in {{}, {node_devices[k].ip : k \in DOMAIN node_devices}} :
          TopologyUpserted(ok)
    \/ WaitReturn
    \/ \E t \in done : ProcessDone(t)
    \/ \E ok \in BOOLEAN : UpsertReturn(ok)
    \/ GatherReturn
    \/ \E ok \in BOOLEAN : PhaseReturn(ok)
    \/ CloseSession
    \/ CloseDb

ProgramStep == TaskStep \/ CoordinatorStep

Next == ProgramStep \/ Signal

Spec == Init /\ [][Next]_vars

\* Every fetch, delay and database call returns, and the loop runs every
\* callback that is ready; nothing is assumed about signals.
FairSpec == Init /\ [][Next]_vars /\ WF_vars(ProgramStep)

\* ============================================================== NodePoller
\* The largest retry budget a direct fetch_json call is given.
MaxRetries == 2
\* NodePoller.MAX_RETRIES, the budget poll_node's calls get
MAX_RETRIES == 1

\* JSON documents a node may answer with: "empty" is a falsy value ({}, [],
\* null, 0), "list" a non-empty value that is no object, "plain" a sysinfo
\* object, "full" an object that also carries link_info and services_local,
\* "bad" an object with a lat that float() rejects.
Docs == {"empty", "list", "plain", "full", "bad"}

\* How one HTTP attempt can end.
Outcomes == {<<"timeout", "-">>, <<"non200", "-">>, <<"malformed", "-">>,
             <<"error", "-">>} \cup {<<"json", d>> : d \in Docs}

\* Python truthiness of what fetch_json returned ("if data:")
Truthy(v) == v \notin {None, "empty"}
\* isinstance(v, dict)
IsDict(v) == v \in {"plain", "full", "bad"}

\* poll_node's candidate lists: the same four paths, with the chain's query
Paths == <<":80/a/sysinfo", ":8080/a/sysinfo",
           ":80/cgi-bin/sysinfo.json", ":8080/cgi-bin/sysinfo.json">>
Query(chain) ==
    CASE chain = "sysinfo" -> ""
      [] chain = "link_info" -> "?link_info=1"
      [] OTHER -> "?services_local=1"
Url(i, chain) == <<Paths[i], Query(chain)>>

RetryAnyFailure(o, att, retries) ==
    CASE o[1] = "json" -> o[2]
      [] OTHER -> IF att < retries THEN "retry" ELSE None

\* One pass of fetch_json's loop body, for attempt number att (from 0) that
\* ended as o: the value returned, or "retry" when the loop sleeps and goes on.
AttemptResult(o, att, retries) ==
    CASE o[1] = "json" -> o[2]
      [] o[1] = "timeout" -> IF att < retries THEN "retry" ELSE None
      [] OTHER -> None

\* fetch_json(url) is called: the loop starts and the first request is sent.
FetchCall(url) ==
    [pc |-> "request", url |-> url, attempt |-> 0, attempts |-> <<>>,
     result |-> "-"]

\* _parse_sysinfo raises on a value without items() and on a bad lat
ParseRaises(d) == d \notin {"plain", "full"}
\* _parse_sysinfo: what the record holds for link_info and services
ParseSysinfo(d) ==
    IF d = "full" THEN [link_info |-> "embedded", services |-> "embedded"]
    ELSE NodeInfo

LinkInfoCleared(info, v) == [info EXCEPT !.link_info = ""]

\* poll_node after the link_info chain: a dict with a non-empty link_info
\* dict is pickled into the record, anything else leaves it alone
LinkInfoFrom(info, v) ==
    IF Truthy(v) /\ v = "full" THEN [info EXCEPT !.link_info = "fetched"] ELSE info

\* poll_node after the services chain: any dict stores a list (its
\* services_local, else empty), anything else leaves the record alone
ServicesFrom(info, v) ==
    IF Truthy(v) /\ IsDict(v)
       THEN [info EXCEPT !.services = IF v = "full" THEN "fetched" ELSE "fetched_empty"]
       ELSE info

TryEveryCandidate(v, i) == i >= Len(Paths)

\* "if data: break", else the loop ends with the last candidate
ChainEnds(v, i) == Truthy(v) \/ i >= Len(Paths)

\* The assignment of fetch_json's value v to the local of the chain under way
Assigned(p, v) ==
    CASE p.pc = "sysinfo" -> [p EXCEPT !.data = Append(p.data, v)]
      [] p.pc = "link_info" -> [p EXCEPT !.link_info_data = v]
      [] OTHER -> [p EXCEPT !.services_data = v]

\* poll_node goes on after fetch_json returned v for candidate p.idx of the
\* chain p.pc: the next candidate, the next chain, or the return.
\* The result is the new poll state and the URL of the next call ("-": none).
PollAfterFetch(p, v) ==
    LET q == Assigned(p, v)
    IN  IF ~ChainEnds(v, p.idx)
           THEN [poll |-> [q EXCEPT !.idx = p.idx + 1],
                 next |-> Url(p.idx + 1, p.pc)]
        ELSE IF p.pc = "sysinfo"
           THEN IF ~Truthy(v)
                   THEN [poll |-> [q EXCEPT !.pc = "returned", !.result = None],
                         next |-> <<"-", "-">>]
                ELSE IF ParseRaises(v)
                   THEN [poll |-> [q EXCEPT !.pc = "returned", !.source = p.idx,
                                            !.result = None],
                         next |-> <<"-", "-">>]
                ELSE [poll |-> [q EXCEPT !.pc = "link_info", !.idx = 1,
                                         !.source = p.idx,
                                         !.node_info = ParseSysinfo(v)],
                      next |-> Url(1, "link_info")]
        ELSE IF p.pc = "link_info"
           THEN [poll |-> [q EXCEPT !.pc = "services", !.idx = 1,
                                    !.node_info = LinkInfoFrom(p.node_info, v)],
                 next |-> Url(1, "services")]
        ELSE [poll |-> [q EXCEPT !.pc = "returned",
                                 !.node_info = ServicesFrom(p.node_info, v),
                                 !.result = "node_info"],
              next |-> <<"-", "-">>]

\* An HTTP attempt of the fetch_json call under way ends as o.  fetch_json
\* sleeps before a retry or returns; when it returns into poll_node, poll_node
\* runs on to its next fetch_json call or to its return.
FetchAttempt(o) ==
    /\ fetch.pc = "request"
    /\ LET r == AttemptResult(o, fetch.attempt, call.retries)
           log == Append(fetch.attempts, o)
       IN  IF r = "retry"
              THEN /\ fetch' = [fetch EXCEPT !.pc = "retry_sleep", !.attempts = log]
                   /\ UNCHANGED <<poll, requested>>
           ELSE IF call.kind = "fetch_json"
              THEN /\ fetch' = [fetch EXCEPT !.pc = "returned", !.attempts = log,
                                            !.result = r]
                   /\ UNCHANGED <<poll, requested>>
           ELSE LET a == PollAfterFetch(poll, r)
                IN  /\ poll' = a.poll
                    /\ IF a.next = <<"-", "-">>
                          THEN /\ fetch' = [fetch EXCEPT !.pc = "returned",
                                                   !.attempts = log, !.result = r]
                               /\ UNCHANGED requested
                          ELSE /\ fetch' = FetchCall(a.next)
                               /\ requested' = Append(requested, a.next)
    /\ UNCHANGED <<call, daemon, adapter, topology, enricher, functions>>

\* asyncio.sleep(NODE_RETRY_DELAY) returns: the next attempt is sent.
RetrySleepReturn ==
    /\ fetch.pc = "retry_sleep"
    /\ fetch' = [fetch EXCEPT !.pc = "request", !.attempt = fetch.attempt + 1]
    /\ UNCHANGED <<call, poll, requested, daemon, adapter, topology, enricher,
                   functions>>

\* A direct fetch_json(url, retries) call, or poll_node(ip, hops) up to its
\* first request.
PollerInit ==
    /\ DaemonIdle /\ AdapterIdle /\ TopologyIdle /\ EnricherIdle /\ FunctionsIdle
    /\ \/ /\ \E r \in 0..MaxRetries : call = [kind |-> "fetch_json", retries |-> r]
          /\ fetch = FetchCall(<<"url", "">>)
          /\ poll = PollCall("idle", 0)
          /\ requested = <<>>
       \/ /\ call = [kind |-> "poll_node", retries |-> MAX_RETRIES]
          /\ fetch = FetchCall(Url(1, "sysinfo"))
          /\ poll = PollCall("sysinfo", 1)
          /\ requested = <<Url(1, "sysinfo")>>

PollerNext ==
    \/ \E o \in Outcomes : FetchAttempt(o)
    \/ RetrySleepReturn

PollerSpec == PollerInit /\ [][PollerNext]_vars

\* ============================================================ MySQLAdapter
\* The number of upsert_node calls followed.
MaxUpserts == 3

\* The mesh addresses of the nodes followed
IPs == {"10.0.0.1", "10.0.0.2"}
\* What a node-list entry can carry as ip: an address, or nothing
EntryIps == IPs \cup {""}
\* What a wlan interface of a sysinfo document can carry as ip
IfaceIps == {"", "none", "10.0.0.2"}
\* Latitudes, in units of 1e-8 degree
Lats == {0, 14}
\* The link maps a node can report: none, or one with links
LinkMaps == {"{}", "LM"}

\* pickle.dumps(d).hex(): never the empty string, not even for an empty dict
Pickle(d) == IF d = "{}" THEN "80037d71002e" ELSE "80037d7100LM"

\* round(x, 7) on a value in units of 1e-8
Round7(x) == ((x + 5) \div 10) * 10

\* _build_node_list keeps an entry only if its ip is non-empty
Listed(ip) == ip # ""

KeepCallerIp(ip, iface) == ip

\* _parse_sysinfo: wlan_ip is the polled address unless a wlan interface
\* carries an address of its own
WlanIp(ip, iface) == IF iface \notin {"", "none"} THEN iface ELSE ip

\* The record _update_topology_info builds for a candidate
TopologyRecord(ip, links) ==
    [wlan_ip |-> ip, node |-> "", lat |-> 0, link_info |-> Pickle(links)]

\* The record poll_node returns
PolledRecord(ip, iface, name, lat, li) ==
    [wlan_ip |-> WlanIp(ip, iface), node |-> name, lat |-> lat, link_info |-> li]

\* The records the daemon passes to upsert_node
Records ==
    {TopologyRecord(ip, l) : ip \in {i \in EntryIps : Listed(i)}, l \in LinkMaps}
    \cup {PolledRecord(x[1], x[2], x[3], x[4], x[5]) :
            x \in IPs \X IfaceIps \X {"a", "b"} \X Lats \X {"", Pickle("LM")}}

LinkInfoAsGiven(rec) == rec.link_info

\* link_info_insert / link_info_update: an empty or missing value becomes NULL
LinkInfoParam(rec) == IF rec.link_info \in {"", None} THEN None ELSE rec.link_info

InsertAlways(T, rec, t) ==
    T \cup {[wlan_ip |-> rec.wlan_ip, node |-> rec.node, lat |-> Round7(rec.lat),
             link_info |-> LinkInfoParam(rec), last_seen |-> t]}

\* INSERT ... ON DUPLICATE KEY UPDATE on table T at time t
UpsertNode(T, rec, t) ==
    LET old == {r \in T : r.wlan_ip = rec.wlan_ip}
    IN  IF old = {}
           THEN T \cup {[wlan_ip |-> rec.wlan_ip, node |-> rec.node,
                         lat |-> Round7(rec.lat),
                         link_info |-> LinkInfoParam(rec), last_seen |-> t]}
           ELSE (T \ old) \cup
                {[r EXCEPT !.node = rec.node, !.lat = Round7(rec.lat),
                           !.link_info = IF LinkInfoParam(rec) = None
                                            THEN r.link_info
                                            ELSE LinkInfoParam(rec),
                           !.last_seen = t] : r \in old}

\* How many times in a row rec has been applied once this call went through
Applied(rec) ==
    IF ~last_upsert.raised /\ last_upsert.rec = rec
       THEN last_upsert.applied + 1 ELSE 1

\* upsert_node(rec) is called and its statement executes, or raises
UpsertCall(rec, raised, polled, found) ==
    /\ now < MaxUpserts
    /\ now' = now + 1
    /\ node_table' = IF raised THEN node_table ELSE UpsertNode(node_table, rec, now')
    /\ last_upsert' = [rec |-> rec, raised |-> raised,
                       applied |-> IF raised THEN 0 ELSE Applied(rec),
                       polled |-> polled, found |-> found]
    /\ UNCHANGED <<daemon, poller, topology, enricher, functions>>

\* _update_topology_info upserts the record of a candidate
UpsertTopology(ip, links, raised) ==
    /\ Listed(ip)
    /\ UpsertCall(TopologyRecord(ip, links), raised, "-", "-")

\* _poll_all_nodes upserts the record a poll returned
UpsertPolled(ip, iface, name, lat, li, raised) ==
    UpsertCall(PolledRecord(ip, iface, name, lat, li), raised, ip, iface)

AdapterInit == DaemonIdle /\ UnitsIdle

AdapterNext ==
    \/ \E ip \in EntryIps, l \in LinkMaps, raised \in BOOLEAN :
          UpsertTopology(ip, l, raised)
    \/ \E ip \in IPs, iface \in IfaceIps, name \in {"a", "b"}, lat \in Lats,
          li \in {"", Pickle("LM")}, raised \in BOOLEAN :
          UpsertPolled(ip, iface, name, lat, li, raised)

AdapterSpec == AdapterInit /\ [][AdapterNext]_vars

\* =============================================================== discovery
\* The number of discoveries (one per poll cycle) followed.
MaxDiscoveries == 2

\* self.nodelistNode: the configured seed host
NodelistNode == "localnode.local.mesh"
\* The addresses the seed's interfaces can carry: one that the node list may
\* hold too, one that it never holds
SeedIps == {"10.0.0.1", "10.0.0.3"}
\* The seed document's own node, lat and lon
SeedName == "seed"

\* What the three fetches of _fetch_topology can bring: whether the nodes
\* document is a JSON object, the ips of its node list (an entry may lack
\* one), which entry if any carries is_localnode, the address of the seed's
\* interfaces if any, whether the LQM document has trackers and whether the
\* link_info document has links.
Answers ==
    {a \in [ok : BOOLEAN, listed : SUBSET EntryIps, flagged : EntryIps \cup {None},
            iface : SeedIps \cup {None}, lqm : BOOLEAN, li : BOOLEAN] :
        /\ a.flagged # None => a.flagged \in a.listed
        /\ ~a.ok => (a.listed = {} /\ a.flagged = None /\ a.iface = None)}

\* nodes_list: the entries of the nodes document, none if it is no object
NodesList(a) ==
    IF a.ok THEN {[ip |-> i, name |-> "listed", is_localnode |-> (i = a.flagged)] :
                    i \in a.listed}
    ELSE {}

\* nodelistNode_ip or self.nodelistNode
ResolvedSeed(a) == IF a.ok /\ a.iface # None THEN a.iface ELSE NodelistNode

\* link_map: from the LQM trackers, else from link_info, else empty
LinkMap(a) == IF a.lqm THEN "LQM" ELSE IF a.li THEN "LI" ELSE "{}"

\* link_map_by_source, as a set of <<key, link map>> pairs: the key is
\* self.localnode_ip
LinkMapBySource(seed_ip, key, lm) ==
    IF seed_ip # "" /\ lm # "{}" THEN {<<key, lm>>} ELSE {}

\* link_map_by_source.get(ip, {})
LinksOf(links, ip) ==
    IF \E l \in links : l[1] = ip
       THEN (CHOOSE l \in links : l[1] = ip)[2] ELSE "{}"

\* _fetch_topology runs with the answers a: it resolves the seed, wraps the
\* link map, and returns the bundle, or None when the node list is empty; when
\* localnode_ip is set and not in the list, building the entry to append
\* evaluates self.localnode, which no code defines, and the call raises.
FetchTopology(a) ==
    /\ discovery.pc \in {"idle", "built", "none", "raised"}
    /\ discovery.cycle < MaxDiscoveries
    /\ nodelistNode_ip' = ResolvedSeed(a)
    /\ LET nodes == NodesList(a)
           links == LinkMapBySource(ResolvedSeed(a), localnode_ip, LinkMap(a))
           next == [discovery EXCEPT !.cycle = discovery.cycle + 1,
                                     !.listed = {n.ip : n \in nodes},
                                     !.link_map = LinkMap(a),
                                     !.nodes = {}, !.links = {},
                                     !.candidates = {}]
       IN  discovery' =
              IF localnode_ip # None /\ ~\E n \in nodes : n.ip = localnode_ip
                 THEN [next EXCEPT !.pc = "raised"]
              ELSE IF nodes = {}
                 THEN [next EXCEPT !.pc = "none"]
              ELSE [next EXCEPT !.pc = "fetched", !.nodes = nodes, !.links = links]
    /\ UNCHANGED <<localnode_ip, daemon, poller, adapter, enricher, functions>>

\* _build_node_list(topology): every entry with an ip becomes a candidate
\* with the link map filed under its ip, and an entry flagged is_localnode
\* sets self.localnode_ip.
BuildCandidates ==
    /\ discovery.pc = "fetched"
    /\ discovery' =
          [discovery EXCEPT
              !.pc = "built",
              !.candidates =
                  {[ip |-> n.ip, name |-> n.name,
                    link_info |-> LinksOf(discovery.links, n.ip),
                    is_localnode |-> n.is_localnode] :
                      n \in {m \in discovery.nodes : Listed(m.ip)}}]
    /\ localnode_ip' =
          IF \E n \in discovery.nodes : Listed(n.ip) /\ n.is_localnode
             THEN (CHOOSE n \in discovery.nodes : Listed(n.ip) /\ n.is_localnode).ip
             ELSE localnode_ip
    /\ UNCHANGED <<nodelistNode_ip, daemon, poller, adapter, enricher, functions>>

TopologyInit == DaemonIdle /\ UnitsIdle

TopologyNext ==
    \/ \E a \in Answers : FetchTopology(a)
    \/ BuildCandidates

TopologySpec == TopologyInit /\ [][TopologyNext]_vars

\* ========================================================== _parse_sysinfo
\* The longest interfaces array followed.
MaxIfaces == 3

\* The address poll_node was called with
CallerIp == "10.0.0.1"
\* The addresses that start with "10."
StartsWith10(a) == a \in {"10.0.0.1", "10.0.0.2", "10.0.0.4"}

\* The entries of the interfaces array of a sysinfo document: the names and
\* the addresses an entry can carry
Ifaces == [name : {"wlan0", "wlan1", "eth1.3975", "br-nomesh", "br-lan"},
           ip : {"", "none", "10.0.0.2", "10.0.0.4", "172.16.0.5"}]
RECURSIVE SeqsUpTo(_, _)
SeqsUpTo(S, n) ==
    IF n = 0 THEN {<<>>}
    ELSE SeqsUpTo(S, n - 1) \cup
         {Append(q, x) : q \in {r \in SeqsUpTo(S, n - 1) : Len(r) = n - 1}, x \in S}

\* "if ip_addr and ip_addr != 'none'"
Usable(a) == a \notin {"", "none"}
IsWlan(i) == i.name \in {"wlan0", "wlan1"}
IsMeshPort(i) == i.name \in {"eth1.3975", "eth0.3975", "br-nomesh", "br0"}

\* One pass of the loop over the interfaces: the entry i with wlan_ip at w
AfterIface(w, i) ==
    IF IsWlan(i) THEN (IF Usable(i.ip) THEN i.ip ELSE w)
    ELSE IF i.name = "br-lan" /\ Usable(i.ip) THEN w
    ELSE IF IsMeshPort(i) THEN (IF Usable(i.ip) /\ StartsWith10(i.ip) THEN i.ip ELSE w)
    ELSE w

\* The loop over the interfaces array, from entry k on, with wlan_ip at w
RECURSIVE ParseInterfaces(_, _, _)
ParseInterfaces(value, k, w) ==
    IF k > Len(value) THEN w
    ELSE ParseInterfaces(value, k + 1, AfterIface(w, value[k]))

\* _parse_sysinfo is called on a document with the interfaces array v
ParseInit ==
    /\ DaemonIdle /\ PollerIdle /\ AdapterIdle /\ TopologyIdle /\ EnricherIdle
    /\ \E v \in SeqsUpTo(Ifaces, MaxIfaces) :
          frame = [fn |-> "_parse_sysinfo", pc |-> "called", ip |-> CallerIp,
                   interfaces |-> v, wlan_ip |-> ""]

\* _parse_sysinfo runs: wlan_ip starts as the caller's ip, then the loop
ParseReturn ==
    /\ frame.fn = "_parse_sysinfo" /\ frame.pc = "called"
    /\ frame' = [frame EXCEPT !.pc = "returned",
                              !.wlan_ip = ParseInterfaces(frame.interfaces, 1, frame.ip)]
    /\ UNCHANGED <<daemon, poller, adapter, topology, enricher>>

ParseSpec == ParseInit /\ [][ParseReturn]_vars

\* ==================================================== _build_link_topology
\* The number of enrichment passes (one per poll cycle) followed.
MaxPasses == 2

\* lat/lon pairs: none, a latitude alone, a full location
Locs == {<<0, 0>>, <<5, 0>>, <<5, 5>>}
\* An address that links point to and that has no row
Outsider == "10.0.0.3"

\* "lat == 0 or lon == 0" / "not lat or not lon"
NoLocation(loc) == loc[1] = 0 \/ loc[2] = 0

\* A link as unpickled from link_info: linkLoc stands for linkLat/linkLon
\* (<<0, 0>> when the link has none), dist for distanceKM, distanceMiles and
\* bearing
Link(dest, type, own) ==
    [dest |-> dest, type |-> type, own |-> own, linkLoc |-> <<0, 0>>, dist |-> FALSE]
LinkChoices(dest) ==
    {{}} \cup {{Link(dest, t, o)} : t \in {"RF", "DTD"}, o \in {<<0, 0>>, <<7, 0>>, <<7, 7>>}}

\* The node tables the pass can find: two nodes with their locations and
\* link maps, the second possibly without a row
NodeTables ==
    {{[wlan_ip |-> "10.0.0.1", loc |-> a, links |-> lb \cup lc]} \cup rowb :
        a \in Locs, lb \in LinkChoices("10.0.0.2"), lc \in LinkChoices(Outsider),
        rowb \in {{}} \cup
                 {{[wlan_ip |-> "10.0.0.2", loc |-> b, links |-> la]} :
                     b \in Locs, la \in {{}, {Link("10.0.0.1", "RF", <<0, 0>>)}}}}

\* dest_lat/dest_lon of the row of dest in the snapshot, 0.0 without a row
StoredLoc(all_nodes, dest) ==
    IF \E n \in all_nodes : n.wlan_ip = dest
       THEN (CHOOSE n \in all_nodes : n.wlan_ip = dest).loc
       ELSE <<0, 0>>

\* The destination's coordinates: the stored ones, unless one of them is
\* zero and the link carries both of its own
DestLoc(stored, own) ==
    IF NoLocation(stored) /\ own[1] # 0 /\ own[2] # 0 THEN own ELSE stored

\* One pass of the loop over a node's links: a link whose destination has
\* no location is left as it is; the others get linkLat/linkLon, and
\* distance and bearing if they are RF links
EnrichLink(all_nodes, l) ==
    LET d == DestLoc(StoredLoc(all_nodes, l.dest), l.own)
    IN  IF NoLocation(d) THEN l
        ELSE [l EXCEPT !.linkLoc = d, !.dist = (l.dist \/ l.type = "RF")]

\* Whether the loop counts the link
Enriched(all_nodes, l) ==
    ~NoLocation(DestLoc(StoredLoc(all_nodes, l.dest), l.own))

CountEvery(all_nodes, links) == Cardinality(links)

\* What the loop over a node's links adds to link_count
LinkCount(all_nodes, links) ==
    Cardinality({l \in links : Enriched(all_nodes, l)})

\* "if not links: continue" and "if node_lat == 0 or node_lon == 0: continue"
Skipped(n) == n.links = {} \/ NoLocation(n.loc)

\* get_all_nodes() returned, and a new pass starts on the snapshot, or it
\* raised, and the pass is over
EnrichStart(raised) ==
    /\ enrich.pc \in {"idle", "done", "failed"}
    /\ enrich.pass < MaxPasses
    /\ enrich' = [enrich EXCEPT !.pc = IF raised THEN "failed" ELSE "loop",
                                !.pass = enrich.pass + 1,
                                !.all_nodes = IF raised THEN {} ELSE node_table,
                                !.todo = IF raised THEN {}
                                         ELSE {n.wlan_ip : n \in node_table},
                                !.link_count = 0, !.given = {}]
    /\ UNCHANGED <<daemon, poller, adapter, topology, functions>>

\* The loop reaches a node that is not skipped, enriches its links and
\* update_link_info writes them, or raises
EnrichNode(ip, raised) ==
    /\ enrich.pc = "loop"
    /\ ip \in enrich.todo
    /\ \E n \in enrich.all_nodes :
          /\ n.wlan_ip = ip
          /\ ~Skipped(n)
          /\ IF raised
                THEN /\ enrich' = [enrich EXCEPT !.pc = "failed"]
                     /\ UNCHANGED node_table
                ELSE /\ enrich' =
                          [enrich EXCEPT
                              !.todo = enrich.todo \ {ip},
                              !.link_count = enrich.link_count +
                                             LinkCount(enrich.all_nodes, n.links),
                              !.given = enrich.given \cup
                                  {<<ip, l.dest>> : l \in
                                      {k \in n.links : Enriched(enrich.all_nodes, k)}}]
                     /\ node_table' =
                          {IF r.wlan_ip = ip
                              THEN [r EXCEPT !.links =
                                      {EnrichLink(enrich.all_nodes, l) : l \in n.links}]
                              ELSE r : r \in node_table}
    /\ UNCHANGED <<daemon, poller, last_upsert, now, topology, functions>>

\* Only skipped nodes are left: the loop ends and the count is stored
EnrichEnd ==
    /\ enrich.pc = "loop"
    /\ \A n \in enrich.all_nodes : n.wlan_ip \in enrich.todo => Skipped(n)
    /\ enrich' = [enrich EXCEPT !.pc = "done", !.todo = {},
                                !.mappableLinks = enrich.link_count]
    /\ UNCHANGED <<daemon, poller, adapter, topology, functions>>

\* Between two passes the next cycle's upserts give a row new coordinates:
\* those of a poll result, or the 0.0 of the topology record
CycleUpsert(ip, loc) ==
    /\ enrich.pc \in {"done", "failed"}
    /\ enrich.pass < MaxPasses
    /\ \E r \in node_table : r.wlan_ip = ip /\ r.loc # loc
    /\ node_table' = {IF r.wlan_ip = ip THEN [r EXCEPT !.loc = loc] ELSE r :
                         r \in node_table}
    /\ UNCHANGED <<daemon, poller, last_upsert, now, topology, enricher, functions>>

EnrichInit ==
    /\ DaemonIdle /\ PollerIdle /\ TopologyIdle /\ EnricherIdle /\ FunctionsIdle
    /\ node_table \in NodeTables
    /\ last_upsert = [rec |-> [wlan_ip |-> "-", node |-> "-", lat |-> 0,
                               link_info |-> "-"],
                      raised |-> FALSE, applied |-> 0,
                      polled |-> "-", found |-> "-"]
    /\ now = 0

EnrichNext ==
    \/ \E raised \in BOOLEAN : EnrichStart(raised)
    \/ \E ip \in IPs, raised \in BOOLEAN : EnrichNode(ip, raised)
    \/ EnrichEnd
    \/ \E ip \in IPs, loc \in Locs : CycleUpsert(ip, loc)

EnrichSpec == EnrichInit /\ [][EnrichNext]_vars

\* ==================================================== _generate_data_files
\* The band buckets of map_data.json
Buckets == {"noRF", "supernode", "900", "2ghz", "3ghz", "5ghz"}

\* A channel column: a string or an integer
StrChannel(s) == [type |-> "str", str |-> s, int |-> 0]
IntChannel(n) == [type |-> "int", str |-> "", int |-> n]
\* int(channel) of the strings of digits that are followed
ChannelNumber ==
    ("0" :> 0) @@ ("11" :> 11) @@ ("12" :> 12) @@ ("36" :> 36) @@ ("64" :> 64)
    @@ ("76" :> 76) @@ ("99" :> 99) @@ ("100" :> 100) @@ ("185" :> 185)
    @@ ("3380" :> 3380)
\* channel.isdigit()
IsDigit(s) == s \in DOMAIN ChannelNumber
\* The rows of node_info, as far as the categorisation reads them
MapNodes ==
    [lat : {0, 5}, lon : {0, 5}, mesh_supernode : {"true", "false"},
     meshRF : {"on", "off"},
     channel : {StrChannel(s) : s \in {"none", "None", "auto", "", "-1"}
                                      \cup DOMAIN ChannelNumber}
               \cup {IntChannel(n) : n \in {1, 37, 70, 80, 184, 3000}},
     board_id : {"0xe009", "0xe1b9", "0x0000"}]

\* "if ch <= 11 ... elif (37 <= ch <= 64) or (100 <= ch <= 184) or ch >= 3000
\*  ... elif 76 <= ch <= 99": the band of a channel number, "-" when none
BandOf(ch) ==
    IF ch <= 11 THEN "2ghz"
    ELSE IF (37 <= ch /\ ch <= 64) \/ (100 <= ch /\ ch <= 184) \/ ch >= 3000 THEN "5ghz"
    ELSE IF 76 <= ch /\ ch <= 99 THEN "3ghz"
    ELSE "-"

\* The band by board and channel alone
BandFirst(node) ==
    IF node.board_id \in {"0xe009", "0xe1b9", "0xe239"} THEN "900"
    ELSE IF node.channel.type = "int" THEN BandOf(node.channel.int)
    ELSE IF IsDigit(node.channel.str) THEN BandOf(ChannelNumber[node.channel.str])
    ELSE "noRF"

\* The if/elif chain on a node that has a location: the bucket the node is
\* appended to, "-" when it is appended to none
BucketOf(node) ==
    LET is_supernode == node.mesh_supernode = "true"
        is_no_rf == node.meshRF = "off" \/ node.channel = StrChannel("none")
    IN  IF is_supernode THEN "supernode"
        ELSE IF is_no_rf THEN "noRF"
        ELSE IF node.channel = StrChannel("none") THEN "noRF"
        ELSE IF node.board_id \in {"0xe009", "0xe1b9", "0xe239"} THEN "900"
        ELSE IF node.channel.type = "str" /\ IsDigit(node.channel.str)
            THEN BandOf(ChannelNumber[node.channel.str])
        ELSE IF node.channel.type = "int" THEN BandOf(node.channel.int)
        ELSE "-"

\* "if lat != 0 or lon != 0"
HasLocation(node) == node.lat # 0 \/ node.lon # 0

\* The loop of _generate_data_files reaches a row: all_devices is empty
BucketInit ==
    /\ DaemonIdle /\ PollerIdle /\ AdapterIdle /\ TopologyIdle /\ EnricherIdle
    /\ \E node \in MapNodes :
          frame = [fn |-> "_generate_data_files", pc |-> "node", node |-> node,
                   all_devices |-> [b \in Buckets |-> <<>>], node_report |-> <<>>]

\* The row is categorised
Categorize ==
    /\ frame.fn = "_generate_data_files" /\ frame.pc = "node"
    /\ frame' = [frame EXCEPT
                   !.pc = "next",
                   !.node_report = Append(@, frame.node),
                   !.all_devices =
                       [b \in Buckets |->
                           IF HasLocation(frame.node) /\ b = BucketOf(frame.node)
                              THEN Append(@[b], frame.node) ELSE @[b]]]
    /\ UNCHANGED <<daemon, poller, adapter, topology, enricher>>

BucketSpec == BucketInit /\ [][Categorize]_vars

\* ============================================================ _is_firmware
\* A firmware_version argument: a str, as the sequence of its characters, or
\* a value that is no str (None)
Str(chars) == [str |-> TRUE, chars |-> chars]
NotStr == [str |-> FALSE, chars |-> <<>>]

\* The version strings that are followed, each as its characters
VersionList == <<
    <<"3", ".", "2", "5", ".", "5", ".", "0">>,    \* 1: "3.25.5.0"
    <<"3", ".", "2", "5", ".", "4", ".", "9">>,    \* 2: "3.25.4.9"
    <<"3", ".", "9", ".", "0", ".", "0">>,    \* 3: "3.9.0.0"
    <<"3", ".", "2", "5", ".", "1", "0", ".", "1">>,    \* 4: "3.25.10.1"
    <<" ", "3", ".", "2", "5", ".", "4", ".", "9">>,    \* 5: " 3.25.4.9"
    <<"3", ".", "2", "5", ".", "5">>,    \* 6: "3.25.5"
    <<"3", ".", "2", "5", "0", ".", "5", ".", "0">>,    \* 7: "3.250.5.0"
    <<"3", ".", "2", "5", ".", "x", ".", "0">>,    \* 8: "3.25.x.0"
    <<"2", "0", "2", "5", "0", "5", "0", "7", "-", "a", "b", "c", "d", "e", "f", "1">>,    \* 9: "20250507-abcdef1"
    <<"2", "0", "2", "5", "0", "5", "0", "6", "-", "A", "B", "C", "D", "E", "F", "1", "2">>,    \* 10: "20250506-ABCDEF12"
    <<"2", "0", "2", "5", "0", "5", "0", "8", "-", "a", "b", "c", "d", "e", "f", "1", " ">>,    \* 11: "20250508-abcdef1 "
    <<"2", "0", "2", "5", "0", "5", "0", "6", "-", "a", "b", "c", "d", "e", "f">>,    \* 12: "20250506-abcdef"
    <<"2", "0", "2", "5", "0", "5", "0", "6", "-", "a", "b", "c", "d", "e", "f", "g">>,    \* 13: "20250506-abcdefg"
    <<"2", "0", "2", "5", "0", "5", "0", "-", "a", "b", "c", "d", "e", "f", "1", "2">>,    \* 14: "2025050-abcdef12"
    <<"b", "a", "b", "e", "l", "-", "2", "0", "2", "5", "0", "6", "0", "1", "-", "a", "b", "c", "d", "e", "f", "1">>,    \* 15: "babel-20250601-abcdef1"
    <<"b", "a", "b", "e", "l", "-">>,    \* 16: "babel-"
    <<" ", "b", "a", "b", "e", "l", "-", "1">>,    \* 17: " babel-1"
    <<"B", "a", "b", "e", "l", "-", "1">>,    \* 18: "Babel-1"
    <<"x", "b", "a", "b", "e", "l", "-", "1">>,    \* 19: "xbabel-1"
    <<"a", "b", "c">>,    \* 20: "abc"
    <<>>,    \* 21: ""
    <<" ">>    \* 22: " "
    >>
VersionStrings == {VersionList[i] : i \in DOMAIN VersionList}
Versions == {Str(s) : s \in VersionStrings} \cup {NotStr}
\* The cutoffs: the defaults 3.25.5.0 and 20250507, and others
VersionCutoffs == {3250500, 3090000, 3251001}
NightlyCutoffs == {20250507, 20250508}

\* int(p) raised ValueError
NoInt == -1
DigitChars == {"0", "1", "2", "3", "4", "5", "6", "7", "8", "9"}
DigitValue ==
    ("0" :> 0) @@ ("1" :> 1) @@ ("2" :> 2) @@ ("3" :> 3) @@ ("4" :> 4)
    @@ ("5" :> 5) @@ ("6" :> 6) @@ ("7" :> 7) @@ ("8" :> 8) @@ ("9" :> 9)
Whitespace == {" ", "\t", "\n"}

AllIn(s, chars) == \A i \in DOMAIN s : s[i] \in chars

\* int(p) of a string of decimal digits; NoInt for the empty string and for
\* a string with another character
RECURSIVE DigitsToInt(_)
DigitsToInt(s) ==
    IF Len(s) = 0 THEN 0
    ELSE 10 * DigitsToInt(SubSeq(s, 1, Len(s) - 1)) + DigitValue[s[Len(s)]]
IntOfStr(s) == IF Len(s) > 0 /\ AllIn(s, DigitChars) THEN DigitsToInt(s) ELSE NoInt

\* version.strip()
RECURSIVE StripChars(_)
StripChars(s) ==
    IF Len(s) > 0 /\ s[1] \in Whitespace THEN StripChars(Tail(s))
    ELSE IF Len(s) > 0 /\ s[Len(s)] \in Whitespace
        THEN StripChars(SubSeq(s, 1, Len(s) - 1))
    ELSE s

\* version.startswith(prefix)
StartsWith(s, prefix) ==
    Len(s) >= Len(prefix) /\ SubSeq(s, 1, Len(prefix)) = prefix
BabelPrefix == <<"b", "a", "b", "e", "l", "-">>

\* s.split(sep)
RECURSIVE Split(_, _)
Split(s, sep) ==
    IF \E i \in DOMAIN s : s[i] = sep
       THEN LET i == CHOOSE j \in DOMAIN s :
                        s[j] = sep /\ \A k \in 1..(j - 1) : s[k] # sep
            IN  <<SubSeq(s, 1, i - 1)>> \o Split(SubSeq(s, i + 1, Len(s)), sep)
       ELSE <<s>>

\* re.fullmatch(r'^\d{1,2}\.\d{1,2}\.\d{1,2}\.\d{1,2}$', version)
MatchesQuad(s) ==
    LET parts == Split(s, ".")
    IN  /\ Len(parts) = 4
        /\ \A k \in 1..4 : Len(parts[k]) \in {1, 2} /\ AllIn(parts[k], DigitChars)

\* re.fullmatch(r'^\d{8}-[0-9a-fA-F]{7,8}$', version)
MatchesNightly(s) ==
    /\ Len(s) \in {16, 17}
    /\ AllIn(SubSeq(s, 1, 8), DigitChars)
    /\ s[9] = "-"
    /\ AllIn(SubSeq(s, 10, Len(s)),
             DigitChars \cup {"a", "b", "c", "d", "e", "f", "A", "B", "C", "D", "E", "F"})

\* Only the first part counts
MajorOnly(version) ==
    IF Len(version) = 0 THEN NoInt
    ELSE LET p == IntOfStr(Split(version, ".")[1])
         IN  IF p = NoInt THEN NoInt ELSE p * 1000000

\* version_to_int(version) of a str: NoInt stands for None
VersionToInt(version) ==
    IF Len(version) = 0 THEN NoInt
    ELSE LET split == Split(version, ".")
             ints == [k \in DOMAIN split |-> IntOfStr(split[k])]
             parts == [k \in 1..(IF Len(ints) < 4 THEN 4 ELSE Len(ints)) |->
                          IF k <= Len(ints) THEN ints[k] ELSE 0]
         IN  IF \E k \in DOMAIN ints : ints[k] = NoInt THEN NoInt
             ELSE parts[1] * 1000000 + parts[2] * 10000 + parts[3] * 100 + parts[4]

\* nightly_to_int(nightly) of a str
NightlyToInt(nightly) ==
    IF Len(nightly) = 0 THEN NoInt ELSE IntOfStr(Split(nightly, "-")[1])

\* A dotted quad or a nightly, whatever the kind asked and the cutoffs
AnyRelease(version, fw_type, version_cutoff, nightly_cutoff) ==
    /\ version.str
    /\ MatchesQuad(StripChars(version.chars)) \/ MatchesNightly(StripChars(version.chars))

\* _is_firmware(version, fw_type, version_cutoff, nightly_cutoff)
IsFirmware(version, fw_type, version_cutoff, nightly_cutoff) ==
    IF ~version.str \/ Len(version.chars) = 0 THEN FALSE
    ELSE LET v == StripChars(version.chars)
         IN  IF fw_type = "babel" THEN StartsWith(v, BabelPrefix)
             ELSE IF fw_type = "olsr" THEN
                 IF MatchesQuad(v)
                    THEN VersionToInt(v) # NoInt /\ VersionToInt(v) < version_cutoff
                 ELSE IF MatchesNightly(v)
                    THEN NightlyToInt(v) # NoInt /\ NightlyToInt(v) < nightly_cutoff
                 ELSE FALSE
             ELSE IF fw_type = "combo" THEN
                 IF StartsWith(v, BabelPrefix) THEN FALSE
                 ELSE IF MatchesQuad(v)
                    THEN VersionToInt(v) # NoInt /\ VersionToInt(v) >= version_cutoff
                 ELSE IF MatchesNightly(v)
                    THEN NightlyToInt(v) # NoInt /\ NightlyToInt(v) >= nightly_cutoff
                 ELSE FALSE
             ELSE FALSE

\* _is_firmware is called
FirmwareInit ==
    /\ DaemonIdle /\ PollerIdle /\ AdapterIdle /\ TopologyIdle /\ EnricherIdle
    /\ \E version \in Versions, fw_type \in {"babel", "olsr", "combo", "mesh"},
          version_cutoff \in VersionCutoffs, nightly_cutoff \in NightlyCutoffs :
          frame = [fn |-> "_is_firmware", pc |-> "called", version |-> version,
                   fw_type |-> fw_type, version_cutoff |-> version_cutoff,
                   nightly_cutoff |-> nightly_cutoff, result |-> FALSE]

\* _is_firmware returns
FirmwareReturn ==
    /\ frame.fn = "_is_firmware" /\ frame.pc = "called"
    /\ frame' = [frame EXCEPT
                   !.pc = "returned",
                   !.result = IsFirmware(frame.version, frame.fw_type,
                                         frame.version_cutoff, frame.nightly_cutoff)]
    /\ UNCHANGED <<daemon, poller, adapter, topology, enricher>>

FirmwareSpec == FirmwareInit /\ [][FirmwareReturn]_vars

\* ====================================================== _determine_protocol
\* _parse_last_seen returned None
NoTimestamp == -1
\* The last_seen column as _generate_data_files passes it: NULL (None), ''
\* for a row without the key, or the datetime of the TIMESTAMP column, given
\* by its unix time
LastSeens ==
    {[type |-> "None", ts |-> 0], [type |-> "str", ts |-> 0]}
    \cup {[type |-> "datetime", ts |-> t] : t \in {89, 90, 91, 100, 101}}

\* _parse_last_seen(last_seen): the timestamp of a datetime; the empty
\* string matches none of the formats and is no ISO date
ParseLastSeen(last_seen) ==
    IF last_seen.type = "datetime" THEN last_seen.ts ELSE NoTimestamp

\* The classification alone
ClassifyOnly(firmware_version, last_seen, time, threshold, version_cutoff, nightly_cutoff) ==
    IF IsFirmware(firmware_version, "babel", version_cutoff, nightly_cutoff)
       THEN "Babel Only"
    ELSE IF IsFirmware(firmware_version, "olsr", version_cutoff, nightly_cutoff)
       THEN "OLSR Only"
    ELSE IF IsFirmware(firmware_version, "combo", version_cutoff, nightly_cutoff)
       THEN "Combo"
    ELSE "Unknown"

\* _determine_protocol(firmware_version, last_seen_value), with time.time()
\* and the configured threshold and cutoffs
DetermineProtocol(firmware_version, last_seen, time, threshold, version_cutoff, nightly_cutoff) ==
    LET last_seen_ts == ParseLastSeen(last_seen)
    IN  IF last_seen_ts = NoTimestamp THEN "Unknown"
        ELSE IF last_seen_ts < time - threshold THEN "Unknown"
        ELSE IF IsFirmware(firmware_version, "babel", version_cutoff, nightly_cutoff)
           THEN "Babel Only"
        ELSE IF IsFirmware(firmware_version, "olsr", version_cutoff, nightly_cutoff)
           THEN "OLSR Only"
        ELSE IF IsFirmware(firmware_version, "combo", version_cutoff, nightly_cutoff)
           THEN "Combo"
        ELSE "Unknown"

\* _determine_protocol is called on a row, at some time.time() and with some
\* protocol_threshold_seconds
ProtocolInit ==
    /\ DaemonIdle /\ PollerIdle /\ AdapterIdle /\ TopologyIdle /\ EnricherIdle
    /\ \E firmware_version \in Versions, last_seen \in LastSeens, time \in {100},
          threshold \in {0, 10}, version_cutoff \in VersionCutoffs,
          nightly_cutoff \in NightlyCutoffs :
          frame = [fn |-> "_determine_protocol", pc |-> "called",
                   firmware_version |-> firmware_version, last_seen |-> last_seen,
                   now |-> time, threshold |-> threshold,
                   version_cutoff |-> version_cutoff,
                   nightly_cutoff |-> nightly_cutoff, result |-> "-"]

\* _determine_protocol returns
ProtocolReturn ==
    /\ frame.fn = "_determine_protocol" /\ frame.pc = "called"
    /\ frame' = [frame EXCEPT
                   !.pc = "returned",
                   !.result = DetermineProtocol(frame.firmware_version, frame.last_seen,
                                                frame.now, frame.threshold,
                                                frame.version_cutoff,
                                                frame.nightly_cutoff)]
    /\ UNCHANGED <<daemon, poller, adapter, topology, enricher>>

ProtocolSpec == ProtocolInit /\ [][ProtocolReturn]_vars

\* ============================== _generate_data_files: the protocol counts
\* The rows read from node_info in one emission
MaxRows == 2

\* get_all_nodes returned: the rows with their firmware_version and
\* last_seen columns, the counts at 0; time.time() is 100 and the threshold
\* 10, so a row last seen at 100 is fresh
ReportInit ==
    /\ DaemonIdle /\ PollerIdle /\ AdapterIdle /\ TopologyIdle /\ EnricherIdle
    /\ \E n \in 0..MaxRows :
       \E all_nodes \in [1..n -> [firmware_version : Versions,
                                  last_seen : {[type |-> "None", ts |-> 0],
                                               [type |-> "datetime", ts |-> 100]}]],
          version_cutoff \in VersionCutoffs, nightly_cutoff \in NightlyCutoffs :
          frame = [fn |-> "_generate_data_files", pc |-> "protocols",
                   all_nodes |-> all_nodes, version_cutoff |-> version_cutoff,
                   nightly_cutoff |-> nightly_cutoff,
                   node_report |-> <<>>, babel_count |-> 0, olsr_count |-> 0,
                   combo_count |-> 0,
                   stats |-> [babelNodes |-> 0, olsrNodes |-> 0, comboNodes |-> 0]]

\* The body of "for node in all_nodes" for the next row: its protocol, its
\* entry in node_report, the count of its protocol
CountProtocol ==
    /\ frame.fn = "_generate_data_files" /\ frame.pc = "protocols"
    /\ Len(frame.node_report) < Len(frame.all_nodes)
    /\ LET node == frame.all_nodes[Len(frame.node_report) + 1]
           protocol == DetermineProtocol(node.firmware_version, node.last_seen,
                                         100, 10, frame.version_cutoff,
                                         frame.nightly_cutoff)
       IN  frame' = [frame EXCEPT
                       !.node_report = Append(@, protocol),
                       !.babel_count = IF protocol = "Babel Only" THEN @ + 1 ELSE @,
                       !.olsr_count = IF protocol = "OLSR Only" THEN @ + 1 ELSE @,
                       !.combo_count = IF protocol = "Combo" THEN @ + 1 ELSE @]
    /\ UNCHANGED <<daemon, poller, adapter, topology, enricher>>

\* After the loop: self.stats['babelNodes'] = babel_count, and so on
StoreCounts ==
    /\ frame.fn = "_generate_data_files" /\ frame.pc = "protocols"
    /\ Len(frame.node_report) = Len(frame.all_nodes)
    /\ frame' = [frame EXCEPT
                   !.pc = "stats",
                   !.stats = [babelNodes |-> frame.babel_count,
                              olsrNodes |-> frame.olsr_count,
                              comboNodes |-> frame.combo_count]]
    /\ UNCHANGED <<daemon, poller, adapter, topology, enricher>>

ReportSpec == ReportInit /\ [][CountProtocol \/ StoreCounts]_vars

\* ======================================== _poll_cycle: the writes to node_info
\* The writes one cycle makes to node_info, in the order of _poll_cycle:
\* _update_topology_info, the upserts of _poll_all_nodes, then
\* _build_link_topology.  frame holds the cycle's locals and a log of its
\* per-node events.

\* The other of the two addresses followed
OtherIp(ip) == IF ip = "10.0.0.1" THEN "10.0.0.2" ELSE "10.0.0.1"

\* pickle.dumps(links).hex() of the link map LM once its link has
\* linkLat/linkLon
PickleEnriched == "80037d7100LMlinkLat"

\* The rows an earlier cycle can have left for ip: none, the row of a
\* successful poll at time 0, or the row of a topology upsert alone
StoredRows(ip) ==
    {{}, UpsertNode({}, PolledRecord(ip, "", "a", 14, Pickle("LM")), 0),
         UpsertNode({}, TopologyRecord(ip, "{}"), 0)}

\* update_link_info(ip, links) after the enrichment of the row's links: the
\* link of LM gets linkLat/linkLon when the destination's row has a
\* location; last_seen is ON UPDATE CURRENT_TIMESTAMP, and moves when the
\* statement changes the row
UpdateLinkInfo(r, T, t) ==
    LET located == \E d \in T : d.wlan_ip = OtherIp(r.wlan_ip) /\ d.lat # 0
        links == IF located THEN PickleEnriched ELSE r.link_info
    IN  [r EXCEPT !.link_info = links,
                  !.last_seen = IF links # r.link_info THEN t ELSE r.last_seen]

\* "if not isinstance(links, dict) or not links" / "node_lat == 0": the rows
\* the enrichment pass writes back
Enriches(r) == r.link_info \in {Pickle("LM"), PickleEnriched} /\ r.lat # 0

\* _poll_cycle has built node_devices from the bundle: the candidates, each
\* with its link map
CycleInit ==
    /\ DaemonIdle /\ PollerIdle /\ TopologyIdle /\ EnricherIdle
    /\ last_upsert = [rec |-> [wlan_ip |-> "-", node |-> "-", lat |-> 0, link_info |-> "-"],
                      raised |-> FALSE, applied |-> 0, polled |-> "-", found |-> "-"]
    /\ now = 0
    /\ \E a \in StoredRows("10.0.0.1"), b \in StoredRows("10.0.0.2") :
          node_table = a \cup b
    /\ \E devs \in (SUBSET IPs) \ {{}} : \E links \in [devs -> LinkMaps] :
          frame = [fn |-> "_poll_cycle", pc |-> "topology", node_devices |-> devs,
                   link_info |-> links, todo |-> devs, before |-> node_table,
                   polled |-> {}, log |-> <<>>]

\* _update_topology_info: the upsert of one candidate, which goes through
\* or raises and is logged; after the last one the fan-out starts
CycleTopology(ip, raised) ==
    /\ frame.fn = "_poll_cycle" /\ frame.pc = "topology"
    /\ ip \in frame.todo
    /\ now' = now + 1
    /\ node_table' = IF raised THEN node_table
                     ELSE UpsertNode(node_table,
                                     TopologyRecord(ip, frame.link_info[ip]), now')
    /\ frame' = [frame EXCEPT
                   !.todo = IF @ = {ip} THEN frame.node_devices ELSE @ \ {ip},
                   !.pc = IF frame.todo = {ip} THEN "fanout" ELSE "topology",
                   !.log = Append(@, <<"topology", ip, ~raised>>)]
    /\ UNCHANGED <<daemon, poller, topology, enricher, last_upsert>>

\* _poll_all_nodes: the poll of one candidate returned None
CyclePollFails(ip) ==
    /\ frame.fn = "_poll_cycle" /\ frame.pc = "fanout"
    /\ ip \in frame.todo
    /\ frame' = [frame EXCEPT
                   !.todo = @ \ {ip},
                   !.pc = IF frame.todo = {ip} THEN "enrich" ELSE "fanout",
                   !.log = Append(@, <<"poll", ip, FALSE>>)]
    /\ UNCHANGED <<daemon, poller, topology, enricher, adapter>>

\* _poll_all_nodes: the poll of one candidate returned a record, and the
\* record is upserted (or the upsert raises and is logged)
CyclePollUpsert(ip, iface, lat, li, raised) ==
    /\ frame.fn = "_poll_cycle" /\ frame.pc = "fanout"
    /\ ip \in frame.todo
    /\ now' = now + 1
    /\ LET rec == PolledRecord(ip, iface, "b", lat, li)
       IN  /\ node_table' = IF raised THEN node_table
                            ELSE UpsertNode(node_table, rec, now')
           /\ frame' = [frame EXCEPT
                          !.todo = @ \ {ip},
                          !.pc = IF frame.todo = {ip} THEN "enrich" ELSE "fanout",
                          !.polled = @ \cup {[ip |-> ip, rec |-> rec, ok |-> ~raised]},
                          !.log = Append(Append(@, <<"poll", ip, TRUE>>),
                                         <<"upsert", rec.wlan_ip, ~raised>>)]
    /\ UNCHANGED <<daemon, poller, topology, enricher, last_upsert>>

\* _build_link_topology: every row with links and a location is written
\* back with its enriched links
CycleEnrich ==
    /\ frame.fn = "_poll_cycle" /\ frame.pc = "enrich"
    /\ now' = now + 1
    /\ node_table' = {IF Enriches(r) THEN UpdateLinkInfo(r, node_table, now') ELSE r :
                         r \in node_table}
    /\ frame' = [frame EXCEPT !.pc = "emit"]
    /\ UNCHANGED <<daemon, poller, topology, enricher, last_upsert>>

CycleNext ==
    \/ \E ip \in IPs, raised \in BOOLEAN : CycleTopology(ip, raised)
    \/ \E ip \in IPs : CyclePollFails(ip)
    \/ \E ip \in IPs, iface \in IfaceIps, lat \in Lats, li \in {"", Pickle("LM")},
          raised \in BOOLEAN : CyclePollUpsert(ip, iface, lat, li, raised)
    \/ CycleEnrich

CycleSpec == CycleInit /\ [][CycleNext]_vars

\* ================================================================== claims
FanOutPcs == {"wait", "process", "upsert", "gather"}
Cap == IF cycle_count = 1 THEN FirstCycleThreads ELSE base_parallel_threads
Pollable == {k \in DOMAIN node_devices : node_devices[k].hopsAway # HopsUnknown}
Canon == <<"discover", "fanout", "enrich", "emit", "save">>
IsPrefix(s, t) == Len(s) <= Len(t) /\ \A i \in 1..Len(s) : s[i] = t[i]

\* C1: in every reachable state the number of poll tasks that hold a permit
\* and are executing poll_node is at most the cycle's budget: 600 in cycle 1,
\* the configured numParallelThreads in later cycles.
C1_ConcurrencyCap == Cardinality(InFlight) <= Cap

\* C1's case: a later cycle with the budget used up and a task kept waiting.
C1_Witness ==
    /\ cycle_count > 1
    /\ Cardinality(InFlight) = base_parallel_threads
    /\ \E t \in TaskIds : tasks[t].pc = "waiting"

\* C2: the fan-out of cycle 1 has a budget of 600 and gives every task a zero
\* start delay; the fan-out of every later cycle has the configured budget.
C2_BudgetAndDelays ==
    pc \in FanOutPcs =>
        /\ parallel_threads = Cap
        /\ permits + Cardinality(InFlight) = Cap
        /\ cycle_count = 1 => \A t \in TaskIds : tasks[t].delay = FracZero

\* C2's case: cycle 1, two polls in flight at once though one thread may be
\* all that is configured, no task delayed.
C2_Witness ==
    /\ cycle_count = 1
    /\ parallel_threads = FirstCycleThreads
    /\ base_parallel_threads = 1
    /\ Cardinality(InFlight) >= 2

\* C3: after the first cycle, with N pollable candidates, the i-th task
\* (i = 0..N-1) has the start delay i * (cycleSeconds / N), cycleSeconds =
\* max(pollerCycleTime*60, 1); so the delays increase strictly, stay below
\* cycleSeconds, and span cycleSeconds - cycleSeconds/N from first to last.
C3_SpreadDelays ==
    (cycle_count > 1 /\ pc \in FanOutPcs) =>
        LET N == Cardinality(Pollable)
            cs == Max(poller_cycle_minutes * 60, 1)
        IN  /\ Len(tasks) = N
            /\ \A i \in 1..N :
                  /\ FracEq(tasks[i].delay, <<(i - 1) * cs, N>>)
                  /\ FracLess(tasks[i].delay, <<cs, 1>>)
                  /\ i < N => FracLess(tasks[i].delay, tasks[i + 1].delay)
            /\ N > 0 =>
                  FracEq(<<tasks[N].delay[1] * tasks[1].delay[2]
                             - tasks[1].delay[1] * tasks[N].delay[2],
                           tasks[N].delay[2] * tasks[1].delay[2]>>,
                         <<cs * N - cs, N>>)

\* C3's case: a later cycle of a 60 s window with several tasks, one asleep.
C3_Witness ==
    /\ cycle_count > 1
    /\ poller_cycle_minutes = 1
    /\ Len(tasks) >= 2
    /\ \E t \in TaskIds : tasks[t].pc = "sleeping"

C6_SettledBeforeReturn ==
    /\ pc \notin FanOutPcs => \A t \in TaskIds : Settled(t)
    /\ session_closed => \A t \in TaskIds : Settled(t)
    /\ db_closed => (session_closed \/ outcome = "fatal")

\* C6's case: shutdown was observed during the fan-out, which has returned
\* with a finished and a cancelled task.
C6_Witness ==
    /\ pc = "enrich"
    /\ shutdown_event
    /\ \E t \in TaskIds : tasks[t].pc = "cancelled"
    /\ \E t \in TaskIds : tasks[t].exit = "polled"

C9_PerNodeFailuresIsolated ==
    /\ [](( pc \in {"enrich", "emit", "save"} /\ ~shutdown_event) =>
            /\ Len(tasks) = Len(node_devices)
            /\ completed = Len(tasks)
            /\ \A t \in TaskIds :
                  /\ tasks[t].exit = "polled"
                  /\ tasks[t].result = "ok" => (t \in results /\ t \in upserted))
    /\ [][/\ (pc \in FanOutPcs) => (pc' \in (FanOutPcs \cup {"enrich"}))
          /\ (pc = "enrich") => (pc' \in {"enrich", "emit"})
          /\ (pc = "emit") => (pc' \in {"emit", "save"})]_vars

\* C9's case: of three candidates one poll failed, one result's upsert
\* raised and one result was stored; the fan-out has returned.
C9_Witness ==
    /\ pc = "enrich"
    /\ ~shutdown_event
    /\ \E t \in TaskIds : tasks[t].result = None
    /\ \E t \in TaskIds : t \in upserted /\ tasks[t].ip \notin db
    /\ \E t \in TaskIds : t \in upserted /\ tasks[t].ip \in db

\* C10: in daemon mode a cycle's exception never ends the loop: the 60 s
\* backoff follows and then, unless shutdown was requested, another cycle.
C10_DaemonSurvivesCycleError ==
    [][~once_mode =>
          /\ (outcome # "raised" /\ outcome' = "raised") => pc' = "backoff"
          /\ pc = "backoff" => pc' \in {"backoff", "loop"}
          /\ (pc = "loop" /\ outcome = "raised") =>
                IF shutdown_event
                   THEN pc' = "cleanup"
                   ELSE pc' = "discover" /\ cycle_count' = cycle_count + 1]_vars

\* C10's case: a cycle of the daemon raised and the backoff runs, with no
\* shutdown requested and a further cycle to come.
C10_Witness ==
    /\ ~once_mode
    /\ outcome = "raised"
    /\ pc = "backoff"
    /\ ~shutdown_event
    /\ cycle_count < MaxCycles

\* C11: in --once mode, once startup has succeeded, exactly one poll cycle is
\* executed, then cleanup runs and the process exits with code 0, also when
\* the cycle ended early because discovery failed; a cycle that raised makes
\* the process exit with code 1, after cleanup.
C11_OnceModeOneCycle ==
    once_mode =>
        /\ cycle_count <= 1
        /\ (pc \in {"cleanup", "close_db", "exited"} /\ outcome # "fatal") =>
              (cycle_count = 1 /\ outcome \in {"ok", "notopo", "raised"})
        /\ pc = "exited" <=> exit_code # NotExited
        /\ pc = "exited" =>
              /\ db_closed
              /\ outcome # "fatal" => session_closed
              /\ outcome \in {"ok", "notopo"} => exit_code = 0
              /\ outcome = "raised" => exit_code = 1

\* C11's case: the one cycle of a --once run ended early because discovery
\* failed, and the process has exited with code 0 after cleanup.
C11_Witness ==
    /\ once_mode
    /\ pc = "exited"
    /\ cycle_count = 1
    /\ outcome = "notopo"
    /\ exit_code = 0
    /\ session_closed /\ db_closed

\* C12 as stated: when a cycle has run its fan-out to completion without
\* shutdown, totalPolled is the number of candidates whose poll succeeded in
\* the cycle, garbageReturned the number of pollable candidates whose poll
\* failed in the cycle, and nodesWithErrors that same per-cycle failure
\* count, in the first cycle and in every later one.
C12_Original ==
    (pc \in {"enrich", "emit", "save"} /\ ~shutdown_event /\ node_devices # <<>>) =>
        /\ stats.totalPolled = Cardinality({t \in TaskIds : tasks[t].result = "ok"})
        /\ stats.garbageReturned =
              Cardinality({t \in TaskIds : tasks[t].result = None})
        /\ stats.nodesWithErrors = stats.garbageReturned

\* The sysinfo URLs among the requests made so far
SysinfoRequests == SelectSeq(requested, LAMBDA u : u[2] = Query("sysinfo"))
\* The value the variable data holds ("None" before the first answer)
Data == IF poll.data = <<>> THEN None ELSE poll.data[Len(poll.data)]

\* C13: a fetch_json call with retry budget r makes at most r+1 HTTP
\* attempts; every attempt but the last ended in a timeout, so an attempt
\* that ends with a non-200 status, malformed JSON or another exception is
\* the last one and the call returns absent; timeouts on all r+1 attempts
\* return absent; a document is returned only from an attempt that received
\* HTTP 200 and parsed as JSON, and it is that attempt's document.
C13_FetchRetries ==
    LET a == fetch.attempts
        n == Len(fetch.attempts)
    IN  /\ n <= call.retries + 1
        /\ fetch.attempt <= call.retries
        /\ \A i \in 1..(n - 1) : a[i][1] = "timeout"
        /\ fetch.pc = "retry_sleep" => (a[n][1] = "timeout" /\ n <= call.retries)
        /\ fetch.pc = "returned" =>
              /\ n >= 1
              /\ a[n][1] \in {"non200", "malformed", "error"} => fetch.result = None
              /\ a[n][1] = "timeout" => (n = call.retries + 1 /\ fetch.result = None)
              /\ a[n][1] = "json" => fetch.result = a[n][2]
              /\ fetch.result # None => a[n] = <<"json", fetch.result>>

\* C13's case: a call with budget 2 timed out twice, got a document on its
\* third attempt and returned it.
C13_Witness ==
    /\ call = [kind |-> "fetch_json", retries |-> MaxRetries]
    /\ fetch.pc = "returned"
    /\ fetch.attempts = <<<<"timeout", "-">>, <<"timeout", "-">>, <<"json", "plain">>>>
    /\ fetch.result = "plain"

\* C14 as stated: the sysinfo candidates are requested in the fixed order,
\* the first one answered with a JSON document supplies the sysinfo and no
\* later candidate is requested, and when all four fail poll_node returns
\* absent without a link_info or services request.
C14_Original ==
    call.kind = "poll_node" =>
        /\ \A i \in 1..Len(SysinfoRequests) :
              i <= Len(Paths) /\ requested[i] = Url(i, "sysinfo")
        /\ \A i \in 1..Len(poll.data) :
              poll.data[i] # None => Len(SysinfoRequests) = i
        /\ (poll.pc # "sysinfo" /\ Data # None) => poll.source = Len(poll.data)
        /\ (poll.pc # "sysinfo" /\ Data = None) =>
              /\ Len(poll.data) = Len(Paths)
              /\ poll.pc = "returned" /\ poll.result = None
              /\ requested = SysinfoRequests

\* C14: the sysinfo candidates are requested in the fixed order (/a/sysinfo
\* on port 80, on port 8080, /cgi-bin/sysinfo.json on port 80, on port 8080);
\* the first one answered with a non-empty JSON document supplies the sysinfo
\* and no later candidate is requested; an empty document counts as a
\* failure; when all four fail poll_node returns absent without a link_info
\* or services request.
C14_FirstSysinfoWins ==
    call.kind = "poll_node" =>
        /\ \A i \in 1..Len(SysinfoRequests) :
              i <= Len(Paths) /\ requested[i] = Url(i, "sysinfo")
        /\ Len(SysinfoRequests) =
              Len(poll.data) + (IF poll.pc = "sysinfo" THEN 1 ELSE 0)
        /\ \A i \in 1..Len(poll.data) :
              Truthy(poll.data[i]) => Len(SysinfoRequests) = i
        /\ (poll.pc # "sysinfo" /\ Truthy(Data)) => poll.source = Len(poll.data)
        /\ (poll.pc # "sysinfo" /\ ~Truthy(Data)) =>
              /\ Len(poll.data) = Len(Paths)
              /\ poll.pc = "returned" /\ poll.result = None
              /\ requested = SysinfoRequests

\* C14's case: the first candidate failed, the second answered with an empty
\* document, the third supplied the sysinfo, and poll_node went on to the
\* link_info chain without requesting the fourth.
C14_Witness ==
    /\ call.kind = "poll_node"
    /\ poll.data = <<None, "empty", "plain">>
    /\ poll.source = 3
    /\ poll.pc = "link_info"
    /\ requested = <<Url(1, "sysinfo"), Url(2, "sysinfo"), Url(3, "sysinfo"),
                     Url(1, "link_info")>>

\* The poll got a sysinfo document that parsed, and has returned
SysinfoParsed == poll.pc = "returned" /\ Truthy(Data) /\ ~ParseRaises(Data)

\* C15 as stated: after the sysinfo fetch succeeded poll_node returns the
\* record whatever the two chains did; link_info is absent when every
\* link_info candidate failed, services is absent when every services
\* candidate failed.
C15_Original ==
    (call.kind = "poll_node" /\ SysinfoParsed) =>
        /\ poll.result = "node_info"
        /\ ~Truthy(poll.link_info_data) => poll.node_info.link_info = ""
        /\ ~Truthy(poll.services_data) => poll.node_info.services = "Not Available"

\* C15: after the sysinfo fetch succeeded and parsed, poll_node returns the
\* record whatever the two chains did; when every link_info candidate failed
\* link_info is what the sysinfo document itself carried (absent if none),
\* and likewise services; link_info depends on the sysinfo document and the
\* link_info chain only, services on the document and the services chain only.
C15_ChainsOptional ==
    (call.kind = "poll_node" /\ SysinfoParsed) =>
        /\ poll.result = "node_info"
        /\ ~Truthy(poll.link_info_data) =>
              poll.node_info.link_info = (IF Data = "full" THEN "embedded" ELSE "")
        /\ ~Truthy(poll.services_data) =>
              poll.node_info.services =
                  (IF Data = "full" THEN "embedded" ELSE "Not Available")
        /\ poll.node_info.link_info =
              (IF poll.link_info_data = "full" THEN "fetched"
               ELSE IF Data = "full" THEN "embedded" ELSE "")
        /\ poll.node_info.services =
              (IF poll.services_data = "full" THEN "fetched"
               ELSE IF IsDict(poll.services_data) THEN "fetched_empty"
               ELSE IF Data = "full" THEN "embedded" ELSE "Not Available")

\* C15's case: the sysinfo document carried nothing, every link_info
\* candidate failed, the services chain succeeded, and the record came back
\* with services and without link_info.
C15_Witness ==
    /\ call.kind = "poll_node"
    /\ SysinfoParsed /\ Data = "plain"
    /\ Url(4, "link_info") \in {requested[i] : i \in 1..Len(requested)}
    /\ poll.link_info_data = None
    /\ poll.services_data = "full"
    /\ poll.result = "node_info"
    /\ poll.node_info = [link_info |-> "", services |-> "fetched"]

\* A table's rows without their last_seen column
Strip(T) ==
    {[wlan_ip |-> r.wlan_ip, node |-> r.node, lat |-> r.lat,
      link_info |-> r.link_info] : r \in T}
\* The rows of table T with key ip
RowsOf(T, ip) == {r \in T : r.wlan_ip = ip}

\* C16: after any sequence of upsert_node calls the node table holds at most
\* one row per wlan_ip and no row with an empty wlan_ip; applying upsert_node
\* a second time with the same record leaves every row as the first
\* application left it, apart from last_seen.
C16_OneRowPerKey ==
    /\ [](/\ \A r1 \in node_table, r2 \in node_table :
                r1.wlan_ip = r2.wlan_ip => r1 = r2
          /\ \A r \in node_table : r.wlan_ip # "")
    /\ [][(now' # now /\ last_upsert'.applied >= 2) =>
              Strip(node_table') = Strip(node_table)]_vars

\* C16's case: two nodes have a row, and the latest call applied the same
\* record a second time, which refreshed last_seen of its row only.
C16_Witness ==
    /\ last_upsert.applied = 2
    /\ Cardinality(node_table) = 2
    /\ \E r \in node_table :
          /\ r.wlan_ip = last_upsert.rec.wlan_ip
          /\ r.last_seen = now
          /\ r.node = "a"
    /\ \E r \in node_table : r.last_seen < now - 1

\* C17: upsert_node applied to an existing row with an absent or empty
\* link_info leaves the stored link_info unchanged while overwriting the
\* other fields; with a non-empty link_info it replaces the stored one.
C17_CoalesceLinkInfo ==
    /\ [](\A r \in node_table :
             \A q \in RowsOf(UpsertNode(node_table,
                                [wlan_ip |-> r.wlan_ip, node |-> "b", lat |-> 14,
                                 link_info |-> None], now + 1), r.wlan_ip) :
                 /\ q.link_info = r.link_info
                 /\ q.node = "b" /\ q.lat = Round7(14) /\ q.last_seen = now + 1)
    /\ [][(now' # now /\ ~last_upsert'.raised) =>
              \A r \in RowsOf(node_table, last_upsert'.rec.wlan_ip) :
                 \E q \in node_table' :
                    /\ q.wlan_ip = r.wlan_ip
                    /\ q.node = last_upsert'.rec.node
                    /\ q.lat = Round7(last_upsert'.rec.lat)
                    /\ q.last_seen = now'
                    /\ q.link_info = IF last_upsert'.rec.link_info \in {"", None}
                                         THEN r.link_info
                                         ELSE last_upsert'.rec.link_info]_vars

\* C17's case: a row that held the link_info and the empty name of a
\* topology record was upserted with a polled record without link_info: the
\* name was overwritten and the link_info kept.
C17_Witness ==
    /\ ~last_upsert.raised
    /\ last_upsert.rec.link_info = ""
    /\ last_upsert.rec.node = "a"
    /\ \E r \in node_table :
          /\ r.wlan_ip = last_upsert.rec.wlan_ip
          /\ r.node = "a"
          /\ r.link_info = Pickle("{}")
          /\ r.last_seen = now

\* The addresses discovery gave this cycle
Discovered == {node_devices[k].ip : k \in DOMAIN node_devices}

\* C18: across the poll cycles the set of wlan_ip keys of the node table
\* never loses a member, whatever discovery returns, whichever polls fail and
\* whenever shutdown comes; and a poll task that has not finished is for a
\* node of the current cycle's discovery, so a node absent from discovery is
\* not polled.
C18_RowsRetained ==
    /\ [][db \subseteq db']_vars
    /\ [](\A t \in TaskIds : ~Settled(t) => tasks[t].ip \in Discovered)

\* C18's case: the second cycle discovered one node only; the rows of the
\* nodes of the first cycle are still there, one poll of this cycle has
\* failed, and shutdown has been requested.
C18_Witness ==
    /\ cycle_count = 2
    /\ Len(node_devices) = 1
    /\ db = {1, 2, 3}
    /\ shutdown_event
    /\ pc = "gather"
    /\ \E t \in TaskIds : tasks[t].exit = "polled" /\ tasks[t].result = None

\* The node list of the discovery held well-formed entries only
ListWellFormed == discovery.listed # {} /\ discovery.listed \subseteq IPs

\* C19 as stated: after a discovery that gave a bundle, in the first cycle
\* and in every later one, if the seed's resolved IP is not among the ips of
\* the fetched node list, the candidate set has an entry for the seed, flagged
\* as localnode and carrying the seed document's own name.
C19_Original ==
    (discovery.pc = "built" /\ ListWellFormed
                           /\ nodelistNode_ip \in SeedIps
                           /\ nodelistNode_ip \notin discovery.listed) =>
        \E c \in discovery.candidates :
            c.ip = nodelistNode_ip /\ c.is_localnode /\ c.name = SeedName

\* C20 as stated: whenever discovery gave a bundle and a non-empty seed link
\* map, the links mapping has exactly one key, the seed's resolved IP; the
\* seed's candidate starts with that link map and every other candidate with
\* an empty one.
C20_Original ==
    (discovery.pc = "built" /\ ListWellFormed
                           /\ nodelistNode_ip \in discovery.listed
                           /\ discovery.link_map # "{}") =>
        /\ {l[1] : l \in discovery.links} = {nodelistNode_ip}
        /\ \A c \in discovery.candidates :
              c.link_info = IF c.ip = nodelistNode_ip THEN discovery.link_map
                            ELSE "{}"

\* The entries of the parsed array that are a wlan interface with a usable
\* address, and those that are a mesh port with a usable 10.x address
WlanEntries ==
    {k \in DOMAIN frame.interfaces :
        IsWlan(frame.interfaces[k]) /\ Usable(frame.interfaces[k].ip)}
MeshPortEntries ==
    {k \in DOMAIN frame.interfaces :
        /\ IsMeshPort(frame.interfaces[k])
        /\ Usable(frame.interfaces[k].ip)
        /\ StartsWith10(frame.interfaces[k].ip)}

\* C21 as stated: whatever the order of the interfaces array, the parsed
\* wlan_ip is the address of a wlan0/wlan1 entry with a usable address when
\* there is one; else that of an eth1.3975, eth0.3975, br-nomesh or br0 entry
\* with a 10.x address when there is one; else the caller's ip.
C21_Original ==
    (frame.fn = "_parse_sysinfo" /\ frame.pc = "returned") =>
        /\ WlanEntries # {} =>
              frame.wlan_ip \in {frame.interfaces[k].ip : k \in WlanEntries}
        /\ (WlanEntries = {} /\ MeshPortEntries # {}) =>
              frame.wlan_ip \in {frame.interfaces[k].ip : k \in MeshPortEntries}
        /\ (WlanEntries = {} /\ MeshPortEntries = {}) => frame.wlan_ip = frame.ip

\* C22: when the parser found an interface address different from the
\* address the poll was sent to, the poll result is upserted under the
\* address found: that row takes the record, and the row of the address
\* polled, if there is one, is left as it was and none is made.
C22_KeyedByDiscoveredIp ==
    [][(/\ now' # now
        /\ ~last_upsert'.raised
        /\ last_upsert'.polled # "-"
        /\ Usable(last_upsert'.found)
        /\ last_upsert'.found # last_upsert'.polled) =>
          /\ last_upsert'.rec.wlan_ip = last_upsert'.found
          /\ \E q \in node_table' :
                /\ q.wlan_ip = last_upsert'.found
                /\ q.node = last_upsert'.rec.node
                /\ q.last_seen = now'
          /\ RowsOf(node_table', last_upsert'.polled) =
                RowsOf(node_table, last_upsert'.polled)]_vars

\* C22's case: 10.0.0.1 has the row the topology upsert gave it; its poll
\* found the wlan address 10.0.0.2, and the result went to the row of
\* 10.0.0.2, leaving the row of 10.0.0.1 as it was.
C22_Witness ==
    /\ ~last_upsert.raised
    /\ last_upsert.polled = "10.0.0.1"
    /\ last_upsert.found = "10.0.0.2"
    /\ \E q \in node_table :
          q.wlan_ip = "10.0.0.2" /\ q.node = last_upsert.rec.node /\ q.last_seen = now
    /\ \E r \in node_table :
          r.wlan_ip = "10.0.0.1" /\ r.node = "" /\ r.last_seen < now

\* The rows whose links the pass under way, or just over, has enriched
Processed ==
    {r \in node_table :
        /\ r.wlan_ip \notin enrich.todo
        /\ \E n \in enrich.all_nodes : n.wlan_ip = r.wlan_ip /\ ~Skipped(n)}
\* C23 as stated: every link of a node with links and a location gets the
\* destination row's stored lat/lon when both are non-zero, else the link's
\* own lat/lon when both are present, and else is skipped: it has no
\* linkLat/linkLon and is not counted; only RF links have distance and bearing.
C23_Original ==
    \A r \in Processed : \A l \in r.links :
        /\ IF ~NoLocation(StoredLoc(enrich.all_nodes, l.dest))
              THEN l.linkLoc = StoredLoc(enrich.all_nodes, l.dest)
           ELSE IF ~NoLocation(l.own)
              THEN l.linkLoc = l.own
           ELSE l.linkLoc = <<0, 0>> /\ <<r.wlan_ip, l.dest>> \notin enrich.given
        /\ l.dist => l.type = "RF"

C25_SinglePollInfoRow ==
    /\ [](/\ Cardinality(statsRow) <= 1
          /\ \A r \in statsRow : r.id = "POLLINFO"
          /\ outcome = "ok" => Cardinality(statsRow) = 1)
    /\ [][(statsRow' # statsRow) =>
             (pc = "save" /\ statsRow' = {StatsRow(stats)})]_vars

\* C25's case: the second cycle completed and its counters, which are not
\* those of the first cycle, are in the only row.
C25_Witness ==
    /\ cycle_count = 2
    /\ outcome = "ok"
    /\ statsRow = {StatsRow(stats)}
    /\ stats.nodeTotal = 2
    /\ stats.totalPolled = 1

\* The buckets the categorised row is in
BucketsWith(node) == {b \in Buckets : \E k \in DOMAIN frame.all_devices[b] :
                                          frame.all_devices[b][k] = node}

\* C26: a row with a location and mesh_supernode "true" is in the supernode
\* bucket and in no other, whatever its channel, meshRF and board id; a row
\* with a location that is no supernode and has meshRF "off" or channel
\* "none" is in noRF and in no other bucket.
C26_SupernodeThenNoRF ==
    (frame.fn = "_generate_data_files" /\ frame.pc = "next"
        /\ HasLocation(frame.node)) =>
       /\ frame.node.mesh_supernode = "true" =>
             BucketsWith(frame.node) = {"supernode"}
       /\ (/\ frame.node.mesh_supernode # "true"
           /\ (frame.node.meshRF = "off" \/ frame.node.channel = StrChannel("none"))) =>
             BucketsWith(frame.node) = {"noRF"}

\* C26's case: a supernode on a 900 MHz board with a 5 GHz channel and
\* mesh RF on was categorised.
C26_Witness ==
    /\ frame.fn = "_generate_data_files" /\ frame.pc = "next"
    /\ HasLocation(frame.node)
    /\ frame.node.mesh_supernode = "true"
    /\ frame.node.board_id = "0xe009"
    /\ frame.node.channel = StrChannel("100")
    /\ frame.node.meshRF = "on"
    /\ frame.all_devices["supernode"] = <<frame.node>>

\* What each followed version string is, read by eye: the strings that are
\* a dotted quad a.b.c.d of 1-2 digit parts with its order
\* a*10^6 + b*10^4 + c*10^2 + d, those that are a nightly YYYYMMDD-<7-8 hex>
\* with its date, those that begin with babel-, each once surrounding white
\* space is set aside, and the strings that have surrounding white space.
QuadOrder ==
    (VersionList[1] :> 3250500)
    @@ (VersionList[2] :> 3250409)
    @@ (VersionList[3] :> 3090000)
    @@ (VersionList[4] :> 3251001)
    @@ (VersionList[5] :> 3250409)
NightlyDate ==
    (VersionList[9] :> 20250507)
    @@ (VersionList[10] :> 20250506)
    @@ (VersionList[11] :> 20250508)
BabelVersions == {VersionList[15], VersionList[16], VersionList[17]}
Padded == {VersionList[5], VersionList[11], VersionList[17], VersionList[22]}

\* The rules of classify on a string, given which strings count as dotted
\* quads, nightlies and babel- versions
Rules(s, quads, nightlies, babels, fw_type, version_cutoff, nightly_cutoff) ==
    IF fw_type = "olsr"
       THEN \/ s \in quads /\ QuadOrder[s] < version_cutoff
            \/ s \in nightlies /\ NightlyDate[s] < nightly_cutoff
    ELSE IF fw_type = "combo"
       THEN /\ s \notin babels
            /\ \/ s \in quads /\ QuadOrder[s] >= version_cutoff
               \/ s \in nightlies /\ NightlyDate[s] >= nightly_cutoff
    ELSE IF fw_type = "babel" THEN s \in babels
    ELSE FALSE

\* C27 as stated: for every version string and cutoffs, olsr is true iff the
\* version is a dotted quad below versionCutoff or a nightly below
\* nightlyCutoff, combo iff it is no babel- version and a dotted quad or
\* nightly at or above its cutoff, babel iff it begins with "babel-"; every
\* other input gives false.
C27_Original ==
    (frame.fn = "_is_firmware" /\ frame.pc = "returned") =>
        frame.result =
            (/\ frame.version.str
             /\ Rules(frame.version.chars,
                      DOMAIN QuadOrder \ Padded, DOMAIN NightlyDate \ Padded,
                      BabelVersions \ Padded,
                      frame.fw_type, frame.version_cutoff, frame.nightly_cutoff))

\* C27: the same rules hold of the version with its surrounding white space
\* removed: olsr is true iff that is a dotted quad below versionCutoff or a
\* nightly below nightlyCutoff, combo iff it is no babel- version and a dotted
\* quad or nightly at or above its cutoff, babel iff it begins with "babel-";
\* every other input gives false.
C27_ClassifyAfterStrip ==
    (frame.fn = "_is_firmware" /\ frame.pc = "returned") =>
        frame.result =
            (/\ frame.version.str
             /\ Rules(frame.version.chars,
                      DOMAIN QuadOrder, DOMAIN NightlyDate, BabelVersions,
                      frame.fw_type, frame.version_cutoff, frame.nightly_cutoff))

\* C27's case: " 3.25.4.9", with white space before it, was classified olsr
\* under the cutoff 3.25.5.0.
C27_Witness ==
    /\ frame.fn = "_is_firmware" /\ frame.pc = "returned"
    /\ frame.version = Str(VersionList[5])
    /\ frame.fw_type = "olsr"
    /\ frame.version_cutoff = 3250500
    /\ frame.result

\* Whether the version of the call, a str, is of the kind by the rules
Matches(fw_type) ==
    /\ frame.firmware_version.str
    /\ Rules(frame.firmware_version.chars,
             DOMAIN QuadOrder, DOMAIN NightlyDate, BabelVersions,
             fw_type, frame.version_cutoff, frame.nightly_cutoff)

\* C28: determineProtocol returns Unknown when last_seen is absent or before
\* now minus the threshold, whatever the version; otherwise it returns the
\* first of Babel Only, OLSR Only, Combo whose kind the version is, and
\* Unknown when it is of none.
C28_FreshThenFirstMatch ==
    (frame.fn = "_determine_protocol" /\ frame.pc = "returned") =>
        frame.result =
            IF \/ frame.last_seen.type # "datetime"
               \/ frame.last_seen.ts < frame.now - frame.threshold
               THEN "Unknown"
            ELSE IF Matches("babel") THEN "Babel Only"
            ELSE IF Matches("olsr") THEN "OLSR Only"
            ELSE IF Matches("combo") THEN "Combo"
            ELSE "Unknown"

\* C28's case: a row last seen exactly the threshold ago, which is not older
\* than it, with version 3.25.5.0 at the cutoff 3.25.5.0, is Combo.
C28_Witness ==
    /\ frame.fn = "_determine_protocol" /\ frame.pc = "returned"
    /\ frame.last_seen = [type |-> "datetime", ts |-> 90]
    /\ frame.now = 100 /\ frame.threshold = 10
    /\ frame.firmware_version = Str(VersionList[1])
    /\ frame.version_cutoff = 3250500
    /\ frame.result = "Combo"

\* C29 as stated: in every cycle the connection pool's total cap is the
\* cycle's concurrency budget, 600 in the first cycle and the configured
\* numParallelThreads afterwards, and its per-host cap is 10.
C29_Original ==
    (cycle_count >= 1 /\ pc \in {"discover", "topology", "enrich", "emit", "save"} \cup FanOutPcs) =>
        /\ connector.limit = CycleBudget(cycle_count)
        /\ connector.limit_per_host = 10

\* The tasks that returned None because the shutdown flag was set, at their
\* first step or on entering the semaphore
ShortCircuited == {t \in TaskIds : tasks[t].pc = "done" /\ tasks[t].exit \in {"pre", "post"}}

\* C30 as stated: a poll task that short-circuits on the shutdown flag does
\* no fetch and no upsert and changes no statistics counter: when the
\* fan-out loop takes it from the done set, no counter changes, and
\* nodesWithErrors in particular stays, and no upsert follows.
C30_Original ==
    [][\A t \in ShortCircuited :
          (pc = "process" /\ t \in done /\ t \notin done') =>
              /\ stats' = stats
              /\ pc' # "upsert"]_vars

\* ------------------------------------------------------------------ C31
\* C31 (as stated): within one cycle each candidate IP is polled at most
\* once, the record of a successful poll is upserted once, right after that
\* poll, and no other write to a candidate's row precedes its poll.
\* _update_topology_info upserts every candidate before the fan-out starts.
C31_Original ==
    frame.fn = "_poll_cycle" =>
        \A ip \in frame.node_devices :
            LET log == frame.log
                polls == {i \in 1..Len(log) : log[i][1] = "poll" /\ log[i][2] = ip}
            IN  /\ Cardinality(polls) <= 1
                /\ \A i \in polls : log[i][3] =>
                      i < Len(log) /\ log[i + 1][1] = "upsert"
                /\ \A j \in 1..Len(log) :
                      (log[j][1] \in {"topology", "upsert"} /\ log[j][2] = ip /\ log[j][3])
                          => \E i \in polls : i < j

\* ------------------------------------------------------------------ C32
\* C32: every candidate has hopsAway 1, so no candidate is skipped for
\* unknown hops: once the fan-out of a cycle has created its tasks there is
\* one task per candidate, their number is nodeTotal, no task ended by the
\* unknown-hops skip, and highestHops is 1 while the cycle has candidates.
C32_EveryCandidatePolled ==
    /\ \A k \in DOMAIN node_devices : node_devices[k].hopsAway = 1
    /\ \A t \in TaskIds : tasks[t].hops = 1 /\ tasks[t].exit # "skip"
    /\ (node_devices # <<>> /\ pc # "discover") => stats.highestHops = 1
    /\ (node_devices # <<>> /\ pc \in FanOutPcs \cup {"enrich", "emit", "save"}) =>
          /\ Len(tasks) = stats.nodeTotal
          /\ Len(tasks) = Len(node_devices)
          /\ \A k \in DOMAIN node_devices :
                \E t \in TaskIds : tasks[t].ip = node_devices[k].ip

C32_Witness ==
    /\ pc = "enrich"
    /\ Len(node_devices) = MaxNodes
    /\ Len(tasks) = MaxNodes
    /\ cycle_count = 2
    /\ \E t \in TaskIds : tasks[t].exit = "polled"

\* ------------------------------------------------------------------ C33
\* The row that key ip had when the cycle began, and has now
RowBefore(ip) == {r \in frame.before : r.wlan_ip = ip}
RowNow(ip) == {r \in node_table : r.wlan_ip = ip}

\* The records of the cycle's successful polls that were written to key ip
WrittenTo(ip) == {p \in frame.polled : p.ok /\ p.rec.wlan_ip = ip}

\* C33 (as stated): the topology-stage upsert of a node already stored
\* keeps the stored name, coordinates and link_info, so up to the end of the
\* fan-out a stored candidate whose row no successful poll has written
\* still has them, and one whose poll succeeded without link data still has
\* the stored link_info.
C33_Original ==
    (frame.fn = "_poll_cycle" /\ frame.pc \in {"topology", "fanout", "enrich"}) =>
        \A ip \in frame.node_devices : \A b \in RowBefore(ip) : \E r \in RowNow(ip) :
            /\ WrittenTo(ip) = {} =>
                  r.node = b.node /\ r.lat = b.lat /\ r.link_info = b.link_info
            /\ (\A p \in WrittenTo(ip) : p.rec.link_info = "") =>
                  r.link_info = b.link_info

\* ------------------------------------------------------------------ C34
\* C34 (as stated): through discovery, fan-out and enrichment the last_seen
\* of a stored row moves only when a successful poll of the cycle was
\* written to it: a discovered node whose poll fails, and a stored node that
\* is not discovered, keep their last_seen.
C34_Original ==
    frame.fn = "_poll_cycle" =>
        \A b \in frame.before : \A r \in RowNow(b.wlan_ip) :
            r.last_seen # b.last_seen => WrittenTo(b.wlan_ip) # {}

\* The same for the stored nodes that the cycle did not discover
C34_Absent ==
    frame.fn = "_poll_cycle" =>
        \A b \in frame.before : \A r \in RowNow(b.wlan_ip) :
            (b.wlan_ip \notin frame.node_devices /\ r.last_seen # b.last_seen)
                => WrittenTo(b.wlan_ip) # {}

\* ------------------------------------------------------------------ C35
\* C35 (as stated): when the cycle is over, a candidate whose poll succeeded
\* and whose record took another address from the node's interfaces has its
\* one row under that address, and there is no row under the candidate
\* address that holds discovery defaults only (no name, no location).
C35_Original ==
    (frame.fn = "_poll_cycle" /\ frame.pc = "emit") =>
        \A p \in frame.polled : (p.ok /\ p.rec.wlan_ip # p.ip) =>
            /\ RowNow(p.rec.wlan_ip) # {}
            /\ \A r \in RowNow(p.ip) : ~(r.node = "" /\ r.lat = 0)

\* ------------------------------------------------------------------ C36
\* C36: from _calculate_stats to the end of the cycle, also in a cycle that
\* shutdown interrupted, totalPolled + garbageReturned is the number of
\* pollable candidates, which is nodeTotal; noLocation + mappableNodes is
\* totalPolled; and the four counters are not negative.
C36_StatsAddUp ==
    pc \in {"enrich", "emit", "save"} =>
        /\ stats.totalPolled + stats.garbageReturned = Cardinality(Pollable)
        /\ Cardinality(Pollable) = stats.nodeTotal
        /\ stats.noLocation + stats.mappableNodes = stats.totalPolled
        /\ stats.totalPolled >= 0 /\ stats.garbageReturned >= 0
        /\ stats.noLocation >= 0 /\ stats.mappableNodes >= 0

C36_Witness ==
    /\ pc = "enrich"
    /\ shutdown_event
    /\ \E t \in TaskIds : tasks[t].pc = "cancelled"
    /\ stats.totalPolled = 2 /\ stats.garbageReturned = 1
    /\ stats.noLocation = 1 /\ stats.mappableNodes = 1

\* ------------------------------------------------------------------ C37
\* The kinds among babel, olsr, combo that classify gives for a version
KindsOf(version, version_cutoff, nightly_cutoff) ==
    {fw_type \in {"babel", "olsr", "combo"} :
        IsFirmware(version, fw_type, version_cutoff, nightly_cutoff)}

\* C37: a version is of at most one of the kinds babel, olsr, combo under any
\* cutoffs, and a dotted quad or nightly is of exactly one of olsr and
\* combo; so each row adds to at most one of the three counts, and
\* babelNodes + olsrNodes + comboNodes is at most the number of rows.
C37_OneKindPerNode ==
    (frame.fn = "_generate_data_files" /\ frame.pc \in {"protocols", "stats"}) =>
        /\ \A k \in DOMAIN frame.all_nodes :
              LET version == frame.all_nodes[k].firmware_version
                  kinds == KindsOf(version, frame.version_cutoff, frame.nightly_cutoff)
              IN  /\ Cardinality(kinds) <= 1
                  /\ (version.str /\ version.chars \in DOMAIN QuadOrder \cup DOMAIN NightlyDate)
                        => Cardinality(kinds \cap {"olsr", "combo"}) = 1
        /\ frame.babel_count + frame.olsr_count + frame.combo_count
              = Cardinality({k \in DOMAIN frame.node_report :
                                frame.node_report[k] # "Unknown"})
        /\ frame.babel_count + frame.olsr_count + frame.combo_count
              <= Len(frame.node_report)
        /\ Len(frame.node_report) <= Len(frame.all_nodes)
        /\ frame.stats.babelNodes + frame.stats.olsrNodes + frame.stats.comboNodes
              <= Len(frame.all_nodes)

\* C37's case: two rows, a babel- version and 3.25.5.0 at the cutoff
\* 3.25.5.0, both fresh, counted as one Babel Only and one Combo node.
C37_Witness ==
    /\ frame.fn = "_generate_data_files" /\ frame.pc = "stats"
    /\ Len(frame.all_nodes) = MaxRows
    /\ frame.all_nodes[1].firmware_version = Str(VersionList[15])
    /\ frame.all_nodes[2].firmware_version = Str(VersionList[1])
    /\ frame.version_cutoff = 3250500
    /\ frame.stats = [babelNodes |-> 1, olsrNodes |-> 0, comboNodes |-> 1]

\* ------------------------------------------------------------------ C38
\* C38 (as stated): a row with a non-zero latitude or longitude is in exactly
\* one of the six buckets, once, whatever its supernode flag, meshRF, board
\* id and channel ("None", a negative channel and a channel between the
\* bands included); and every row is once in node_report.
C38_Original ==
    (frame.fn = "_generate_data_files" /\ frame.pc = "next") =>
        /\ HasLocation(frame.node) =>
              /\ Cardinality(BucketsWith(frame.node)) = 1
              /\ \A b \in BucketsWith(frame.node) : Len(frame.all_devices[b]) = 1
        /\ frame.node_report = <<frame.node>>

\* The part of C38 about node_report alone
C38_ReportedOnce ==
    (frame.fn = "_generate_data_files" /\ frame.pc = "next") =>
        frame.node_report = <<frame.node>>

\* ------------------------------------------------------------------ C39
\* C39: a cycle whose discovery obtains no node list ends there: the step
\* that ends it changes neither the store (node_info, the stats row) nor the
\* statistics, creates no task, emits nothing and runs no further phase, and
\* the cycle has only advanced the cycle counter; the budget of a fan-out is
\* 600 in the cycle numbered 1 and the configured value in every other, also
\* when cycle 1 found nothing.
C39_FailedDiscoveryIsInert ==
    [][/\ (pc = "discover" /\ outcome' = "notopo") =>
             /\ db' = db /\ statsRow' = statsRow /\ stats' = stats
             /\ tasks' = tasks /\ node_devices' = node_devices
             /\ phases' = <<"discover">> /\ emitted' = "-"
             /\ parallel_threads' = parallel_threads
             /\ cycle_count' = cycle_count
             /\ pc' \in {"loop", "cleanup"}
       /\ (pc # "discover" /\ pc' = "discover") =>
             /\ cycle_count' = cycle_count + 1
             /\ db' = db /\ statsRow' = statsRow /\ stats' = stats
       /\ pc' \in FanOutPcs =>
             parallel_threads' = IF cycle_count' = 1 THEN FirstCycleThreads
                                 ELSE base_parallel_threads']_vars

\* C39's case: the second cycle obtained no node list after a first cycle
\* that polled a node and saved its stats row; the row and the statistics
\* are those of the first cycle.
C39_Witness ==
    /\ outcome = "notopo"
    /\ cycle_count = 2
    /\ stats.totalPolled = 1 /\ stats.nodeTotal = 2
    /\ \E r \in statsRow : r.totalPolled = 1 /\ r.nodeTotal = 2
    /\ db # {}

\* ------------------------------------------------------------------ C40
\* C40: a cycle leaves the fan-out only into _calculate_stats and
\* enrichment, enrichment only into emission, emission only into the stats
\* write, also when shutdown was seen during the fan-out; when the cycle
\* ends each phase has run once, in order, before cleanup; and the row a
\* successful stats write stores has as garbageReturned the candidates less
\* the records gathered, which counts every candidate that was never polled.
C40_InterruptedCycleCompletes ==
    [][/\ pc \in FanOutPcs => pc' \in FanOutPcs \cup {"enrich"}
       /\ pc = "enrich" => pc' \in {"enrich", "emit"}
       /\ pc = "emit" => pc' \in {"emit", "save"}
       /\ (pc # "cleanup" /\ pc' = "cleanup" /\ cycle_count > 0 /\ outcome' = "ok") =>
             phases' = Canon
       /\ (pc = "save" /\ pc' # "save") =>
             /\ phases = Canon
             /\ stats.garbageReturned = Cardinality(TaskIds \ results)
             /\ {t \in TaskIds : tasks[t].exit # "polled"} \subseteq TaskIds \ results
             /\ outcome' = "ok" =>
                   \E r \in statsRow' :
                       /\ r.garbageReturned = stats.garbageReturned
                       /\ r.totalPolled = Cardinality(results)]_vars

\* C40's case: shutdown came during the fan-out of the first cycle of three
\* candidates, after one record was gathered and with no poll failed; the
\* cycle ran every phase, saved its row with the two candidates never polled
\* as garbageReturned, and cleanup has begun.
C40_Witness ==
    /\ pc = "cleanup"
    /\ shutdown_event
    /\ cycle_count = 1
    /\ outcome = "ok"
    /\ phases = Canon
    /\ stats.nodesWithErrors = 0
    /\ \E r \in statsRow : r.nodeTotal = 3 /\ r.totalPolled = 1 /\ r.garbageReturned = 2

====
